---- MODULE Spec2Model ----
(***************************************************************************)
(* A model of go-img-diff: the similarity scorer, the colour metrics, the  *)
(* difference mask of the detector, the quick "has differences" check and  *)
(* the worker-pool alignment search (exhaustive and progressive).          *)
(*                                                                         *)
(* Numbers.  Go's float64 scores are modelled as exact fractions [n, d]    *)
(* with d > 0 and compared by cross-multiplication; the colour distance    *)
(* sqrt(..)*alphaFactor + alphaDiff*0.3 is compared with the integer       *)
(* threshold exactly, by squaring.  All integers of the model stay far     *)
(* below 2^63, so Go's int never wraps here.                               *)
(***************************************************************************)
EXTENDS Integers, Sequences, FiniteSets, TLC

VARIABLES
    imgA,            \* the first image  (read-only input)
    imgB,            \* the second image (read-only input)
    cfg,             \* *config.AppConfig shared by the whole pipeline
    callerRate,      \* history: cfg.SamplingRate as the caller created it
    argX, argY,      \* the offset argument of a direct call
    fn,              \* which direct call has been made ("none" before)
    score,           \* result of calculateSimilarityScore
    diffMap,         \* detectDiffRegions' diffMap: the set of <<x, y>> cells set true
    hasDiff,         \* result of HasDifferences
    pc,              \* position of the goroutine running FindBestAlignment
    samplingStages,  \* progressive search: the sampling rate of each stage
    stageIdx,        \* progressive search: index into samplingStages
    searchMaxOffset, \* progressive search: local searchMaxOffset of the stage
    maxOffset,       \* local maxOffset of the running search function
    origSamplingRate,\* progressive search: local origSamplingRate of the stage
    bestOffset,      \* progressive search: bestOffsetX, bestOffsetY
    win,             \* window being scanned: [minX, maxX, minY, maxY]
    offsets,         \* the slice of candidate offsets of the running search
    sendIdx,         \* how many candidates the producer loop has sent
    offsetCh,        \* buffered channel of candidates
    offsetChClosed,  \* close(offsetCh) has happened
    results,         \* buffered channel of OffsetScore
    resultsClosed,   \* close(results) has happened
    idle,            \* number of worker goroutines blocked in "range offsetCh"
    inflight,        \* candidates held by workers between receive and send
    wg,              \* the sync.WaitGroup counter
    closer,          \* the goroutine that runs wg.Wait(); close(results)
    best,            \* collector: [x, y, score] (bestOffsetX/bestX, .., bestScore)
    processed,       \* collector: number of results received in this search
    taken,           \* history: candidates received by workers in this search, in order
    emitted,         \* history: candidates whose result a worker has sent
    emitCount,       \* history: number of results sent by workers in this search
    collected,       \* history: candidates whose result the collector has received
    ret,             \* the offset FindBestAlignment returned (<<>> before)
    rectsArg,        \* the []image.Rectangle argument of a direct call
    diffRegions,     \* the []image.Rectangle a call returned
    canvas,          \* the *image.RGBA a rendering call produced
    blendArgs,       \* the arguments of a direct call of blendColors
    blended,         \* result of blendColors
    touching,        \* result of doRectanglesOverlapOrTouch
    opts,            \* the command-line options after flag.Parse
    exitStatus,      \* exit status of the process (-1 while it has not ended)
    saved            \* SaveDiffImage has written the output image

inputVars  == <<imgA, imgB, callerRate>>
callVars   == <<argX, argY, fn, score, diffMap, hasDiff>>
stageVars  == <<samplingStages, stageIdx, maxOffset, searchMaxOffset,
                origSamplingRate, bestOffset>>
poolVars   == <<win, offsets, sendIdx, offsetCh, offsetChClosed, results,
                resultsClosed, idle, inflight, wg, closer, best, processed,
                taken, emitted, emitCount, collected>>
renderVars == <<rectsArg, diffRegions, canvas, blendArgs, blended>>
mainVars   == <<touching, opts, exitStatus, saved>>
searchVars == <<pc, samplingStages, stageIdx, maxOffset, searchMaxOffset,
                origSamplingRate, bestOffset, win,
                offsets, sendIdx, offsetCh, offsetChClosed, results,
                resultsClosed, idle, inflight, wg, closer, best, processed,
                taken, emitted, emitCount, collected, ret>>
vars == <<imgA, imgB, cfg, callerRate, argX, argY, fn, score, diffMap, hasDiff,
          pc, samplingStages, stageIdx, maxOffset, searchMaxOffset,
          origSamplingRate, bestOffset, win,
          offsets, sendIdx, offsetCh, offsetChClosed, results,
          resultsClosed, idle, inflight, wg, closer, best, processed,
          taken, emitted, emitCount, collected, ret,
          rectsArg, diffRegions, canvas, blendArgs, blended,
          touching, opts, exitStatus, saved>>

(***************************************************************************)
(* utils                                                                   *)
(***************************************************************************)
Min(a, b) == IF a < b THEN a ELSE b

Max(a, b) == IF a > b THEN a ELSE b

AbsInt(x) == IF x < 0 THEN -x ELSE x

AbsDiff(a, b) == IF a > b THEN a - b ELSE b - a

MaxUint32(a, b) == IF a > b THEN a ELSE b

(***************************************************************************)
(* Colours and images.  A colour is the four 8-bit channels the code reads *)
(* after RGBA() >> 8.  An image is its Bounds() and its pixels, addressed  *)
(* by absolute coordinates; At outside the bounds is the zero colour, as   *)
(* image.RGBA.At returns.                                                  *)
(***************************************************************************)
RGBA(r, g, b, a) == [r |-> r, g |-> g, b |-> b, a |-> a]

Black == RGBA(0, 0, 0, 255)

White == RGBA(255, 255, 255, 255)

ZeroColor == RGBA(0, 0, 0, 0)

Dx(img) == img.maxX - img.minX

Dy(img) == img.maxY - img.minY

InBounds(img, x, y) ==
    /\ img.minX <= x /\ x < img.maxX
    /\ img.minY <= y /\ y < img.maxY

At(img, x, y) == IF InBounds(img, x, y) THEN img.pix[<<x, y>>] ELSE ZeroColor

(***************************************************************************)
(* Scores: float64 values as exact fractions.                              *)
(***************************************************************************)
Frac(n, d) == [n |-> n, d |-> d]

ScoreZero == Frac(0, 1)

ScoreEq(s, t) == s.n * t.d = t.n * s.d

ScoreGT(s, t) == s.n * t.d > t.n * s.d

(***************************************************************************)
(* DiffAnalyzer.colorDifference: the alpha-weighted Euclidean distance.    *)
(* The value is sqrt(sq) * asum / 510 + adiff * 0.3, kept in its exact     *)
(* parts; both-transparent pixels give 0.                                  *)
(***************************************************************************)
da_colorDifference(c1, c2) ==
    IF c1.a = 0 /\ c2.a = 0
    THEN [sq |-> 0, asum |-> 0, adiff |-> 0]
    ELSE [sq    |-> (c1.r - c2.r) * (c1.r - c2.r)
                    + (c1.g - c2.g) * (c1.g - c2.g)
                    + (c1.b - c2.b) * (c1.b - c2.b),
          asum  |-> c1.a + c2.a,
          adiff |-> AbsInt(c1.a - c2.a)]

\* Exact products beyond 32 bits (operands below 2^18): base-512 limbs
\* <<high, middle, low>>, compared lexicographically.
BigMul(x, y) ==
    LET xh  == x \div 512
        xl  == x % 512
        yh  == y \div 512
        yl  == y % 512
        lo  == xl * yl
        mid == xh * yl + xl * yh + (lo \div 512)
    IN  <<xh * yh + (mid \div 512), mid % 512, lo % 512>>

BigLT(p, q) ==
    \/ p[1] < q[1]
    \/ p[1] = q[1] /\ p[2] < q[2]
    \/ p[1] = q[1] /\ p[2] = q[2] /\ p[3] < q[3]

\* dist < float64(threshold):  sqrt(sq)*asum + 153*adiff < 510*threshold
DistLT(dist, threshold) ==
    LET rhs == 510 * threshold - 153 * dist.adiff
    IN  /\ rhs > 0
        /\ BigLT(BigMul(dist.sq, dist.asum * dist.asum), BigMul(rhs, rhs))

\* dist >= float64(threshold) in place of dist > float64(threshold)
DistAtLeast(dist, threshold) == ~DistLT(dist, threshold)

\* dist > float64(threshold)
DistGT(dist, threshold) ==
    LET rhs == 510 * threshold - 153 * dist.adiff
    IN  \/ rhs < 0
        \/ BigLT(BigMul(rhs, rhs), BigMul(dist.sq, dist.asum * dist.asum))

(***************************************************************************)
(* The package-level colorDifference of HasDifferences: the largest        *)
(* per-channel absolute difference, alpha ignored.                         *)
(***************************************************************************)
colorDifference(c1, c2) ==
    MaxUint32(MaxUint32(AbsDiff(c1.r, c2.r), AbsDiff(c1.g, c2.g)),
              AbsDiff(c1.b, c2.b))

(***************************************************************************)
(* calculateSimilarityScore.  c is the configuration the call reads        *)
(* (da.cfg): c.SamplingRate and c.Threshold.                               *)
(***************************************************************************)
overlapWidth(A, B, offsetX) ==
    Min(A.maxX, B.maxX + offsetX) - Max(A.minX, B.minX + offsetX)

overlapHeight(A, B, offsetY) ==
    Min(A.maxY, B.maxY + offsetY) - Max(A.minY, B.minY + offsetY)

\* The coordinates the loop body derives from the overlap position (x, y):
\* (xA, yA) relative to boundsA.Min and (xB, yB) relative to boundsB.Min.
ScorePoint(A, B, offsetX, offsetY, x, y) ==
    [xA |-> x + Max(A.minX, B.minX + offsetX) - A.minX,
     yA |-> y + Max(A.minY, B.minY + offsetY) - A.minY,
     xB |-> x + Max(A.minX, B.minX + offsetX) - (B.minX + offsetX),
     yB |-> y + Max(A.minY, B.minY + offsetY) - (B.minY + offsetY)]

\* One execution of the inner loop body; acc carries sampledPoints and
\* matchingPoints, and (history) the pairs of pixels that were compared.
ScoreBody(A, B, offsetX, offsetY, c, x, y, acc) ==
    LET p == ScorePoint(A, B, offsetX, offsetY, x, y)
    IN  IF \/ p.xA < 0 \/ p.xA >= Dx(A) \/ p.yA < 0 \/ p.yA >= Dy(A)
           \/ p.xB < 0 \/ p.xB >= Dx(B) \/ p.yB < 0 \/ p.yB >= Dy(B)
        THEN acc
        ELSE LET colorDiff == da_colorDifference(
                                  At(A, A.minX + p.xA, A.minY + p.yA),
                                  At(B, B.minX + p.xB, B.minY + p.yB))
             IN  [sampledPoints  |-> acc.sampledPoints + 1,
                  matchingPoints |-> IF DistLT(colorDiff, c.Threshold)
                                     THEN acc.matchingPoints + 1
                                     ELSE acc.matchingPoints,
                  pairs          |-> acc.pairs \cup {p}]

RECURSIVE ScoreCols(_, _, _, _, _, _, _, _)
ScoreCols(A, B, offsetX, offsetY, c, x, y, acc) ==
    IF x >= overlapWidth(A, B, offsetX)
    THEN acc
    ELSE ScoreCols(A, B, offsetX, offsetY, c, x + c.SamplingRate, y,
                   ScoreBody(A, B, offsetX, offsetY, c, x, y, acc))

RECURSIVE ScoreRows(_, _, _, _, _, _, _)
ScoreRows(A, B, offsetX, offsetY, c, y, acc) ==
    IF y >= overlapHeight(A, B, offsetY)
    THEN acc
    ELSE ScoreRows(A, B, offsetX, offsetY, c, y + c.SamplingRate,
                   ScoreCols(A, B, offsetX, offsetY, c, 0, y, acc))

ScoreScan(A, B, offsetX, offsetY, c) ==
    ScoreRows(A, B, offsetX, offsetY, c, 0,
              [sampledPoints |-> 0, matchingPoints |-> 0, pairs |-> {}])

\* baseScore after the coverage penalty: coverageRatio < 0.5 is
\* 2 * overlapArea < totalArea, and baseScore *= coverageRatio * 2.0.
\* The match ratio returned whatever the coverage is.
CoverageIgnored(matchingPoints, sampledPoints, overlapArea, totalArea) ==
    Frac(matchingPoints, sampledPoints)

CoverageScaled(matchingPoints, sampledPoints, overlapArea, totalArea) ==
    IF 2 * overlapArea < totalArea
    THEN Frac(matchingPoints * overlapArea * 2, sampledPoints * totalArea)
    ELSE Frac(matchingPoints, sampledPoints)

\* The scorer without its two early returns.
calculateSimilarityScoreUnguarded(A, B, offsetX, offsetY, c) ==
    LET acc == ScoreScan(A, B, offsetX, offsetY, c)
    IN  CoverageScaled(
            acc.matchingPoints, acc.sampledPoints,
            overlapWidth(A, B, offsetX) * overlapHeight(A, B, offsetY),
            Max(Dx(A) * Dy(A), Dx(B) * Dy(B)))

calculateSimilarityScore(A, B, offsetX, offsetY, c) ==
    IF overlapWidth(A, B, offsetX) <= 0 \/ overlapHeight(A, B, offsetY) <= 0
    THEN ScoreZero
    ELSE LET acc == ScoreScan(A, B, offsetX, offsetY, c)
         IN  IF acc.sampledPoints = 0
             THEN ScoreZero
             ELSE CoverageScaled(
                      acc.matchingPoints, acc.sampledPoints,
                      overlapWidth(A, B, offsetX) * overlapHeight(A, B, offsetY),
                      Max(Dx(A) * Dy(A), Dx(B) * Dy(B)))

(***************************************************************************)
(* detectDiffRegions, the diffMap loop.  Cells are <<x, y>> relative to    *)
(* boundsB.Min, as diffMap[y][x].                                          *)
(***************************************************************************)
\* The imgA coordinate (relative to boundsA.Min) compared with cell (x, y).
DetectPoint(offsetX, offsetY, x, y) ==
    [xA |-> x - offsetX, yA |-> y - offsetY, xB |-> x, yB |-> y]

\* The samplingRate x samplingRate block at (x, y), clipped to imgB.
DiffBlock(B, c, x, y) ==
    {<<x + sx, y + sy>> : sx \in 0..(c.SamplingRate - 1),
                          sy \in 0..(c.SamplingRate - 1)}
        \cap {<<bx, by>> : bx \in 0..(Dx(B) - 1), by \in 0..(Dy(B) - 1)}

DetectBody(A, B, offsetX, offsetY, c, x, y, acc) ==
    LET p == DetectPoint(offsetX, offsetY, x, y)
    IN  IF p.xA < 0 \/ p.xA >= Dx(A) \/ p.yA < 0 \/ p.yA >= Dy(A)
        THEN [cells |-> acc.cells \cup DiffBlock(B, c, x, y),
              pairs |-> acc.pairs]
        ELSE LET isDifferent ==
                     DistGT(da_colorDifference(
                                At(A, A.minX + p.xA, A.minY + p.yA),
                                At(B, B.minX + x, B.minY + y)),
                            c.Threshold)
             IN  [cells |-> IF isDifferent
                            THEN acc.cells \cup DiffBlock(B, c, x, y)
                            ELSE acc.cells,
                  pairs |-> acc.pairs \cup {p}]

\* The points the loops "for y := 0; y < Dy; y += samplingRate" and
\* "for x := 0; x < Dx; x += samplingRate" visit.
SamplePoints(B, c) ==
    {p \in {<<x, y>> : x \in 0..(Dx(B) - 1), y \in 0..(Dy(B) - 1)} :
        p[1] % c.SamplingRate = 0 /\ p[2] % c.SamplingRate = 0}

\* The loop body only adds cells to the mask, so the mask after the loops
\* is the union of what the body adds at each visited point.
DetectScan(A, B, offsetX, offsetY, c) ==
    LET visits == {DetectBody(A, B, offsetX, offsetY, c, p[1], p[2],
                              [cells |-> {}, pairs |-> {}]) :
                      p \in SamplePoints(B, c)}
    IN  [cells |-> UNION {v.cells : v \in visits},
         pairs |-> UNION {v.pairs : v \in visits}]

(***************************************************************************)
(* HasDifferences(img1, img2, offsetX, offsetY): absolute coordinates,     *)
(* returns at the first pixel pair whose largest channel difference        *)
(* exceeds the threshold.                                                  *)
(***************************************************************************)
\* The img2 coordinate compared with img1's (x, y).
HasDiffPoint(offsetX, offsetY, x, y) ==
    [x1 |-> x, y1 |-> y, x2 |-> x + offsetX, y2 |-> y + offsetY]

HasDiffBody(img1, img2, offsetX, offsetY, c, x, y) ==
    LET p == HasDiffPoint(offsetX, offsetY, x, y)
    IN  /\ ~(\/ p.x2 < img2.minX \/ p.x2 >= img2.maxX
             \/ p.y2 < img2.minY \/ p.y2 >= img2.maxY)
        /\ colorDifference(At(img1, x, y), At(img2, p.x2, p.y2)) > c.Threshold

RECURSIVE HasDiffCols(_, _, _, _, _, _, _)
HasDiffCols(img1, img2, offsetX, offsetY, c, x, y) ==
    IF x >= Min(img1.maxX, img2.maxX - offsetX)
    THEN FALSE
    ELSE IF HasDiffBody(img1, img2, offsetX, offsetY, c, x, y)
         THEN TRUE
         ELSE HasDiffCols(img1, img2, offsetX, offsetY, c,
                          x + c.SamplingRate, y)

RECURSIVE HasDiffRows(_, _, _, _, _, _)
HasDiffRows(img1, img2, offsetX, offsetY, c, y) ==
    IF y >= Min(img1.maxY, img2.maxY - offsetY)
    THEN FALSE
    ELSE IF HasDiffCols(img1, img2, offsetX, offsetY, c,
                        Max(img1.minX, img2.minX - offsetX), y)
         THEN TRUE
         ELSE HasDiffRows(img1, img2, offsetX, offsetY, c,
                          y + c.SamplingRate)

HasDifferences(img1, img2, offsetX, offsetY, c) ==
    HasDiffRows(img1, img2, offsetX, offsetY, c,
                Max(img1.minY, img2.minY - offsetY))

(***************************************************************************)
(* drawRedBorders: the imgA pixel blended into canvas pixel (x, y).        *)
(***************************************************************************)
OverlaySrcPoint(offsetX, offsetY, x, y) ==
    [srcX |-> x - offsetX, srcY |-> y - offsetY]

(***************************************************************************)
(* image.Rectangle and rectangles.go.  A rectangle is [minX, minY, maxX,   *)
(* maxY]; image.Rect puts the corners in order, image.Rectangle{} is the   *)
(* zero rectangle.  The square roots of rectangles.go are compared         *)
(* exactly, by squaring; x * 1.8, x * 0.15 and x * 10.0 are compared as    *)
(* the integer inequalities 5 * a <= 9 * b, 400 * a < 9 * b * b and        *)
(* a > 10 * b.                                                             *)
(***************************************************************************)
\* Go's integer division truncates toward zero.
GoDiv(a, b) == IF a >= 0 THEN a \div b ELSE -((-a) \div b)

\* image.Rect(x0, y0, x1, y1)
Rect(x0, y0, x1, y1) ==
    [minX |-> Min(x0, x1), minY |-> Min(y0, y1),
     maxX |-> Max(x0, x1), maxY |-> Max(y0, y1)]

ZeroRect == [minX |-> 0, minY |-> 0, maxX |-> 0, maxY |-> 0]

isValidRect(rect) == rect.minX < rect.maxX /\ rect.minY < rect.maxY

rectArea(rect) == (rect.maxX - rect.minX) * (rect.maxY - rect.minY)

filterValidRects(rects) == SelectSeq(rects, isValidRect)

\* const margin = 5
containsRect(r1, r2) ==
    /\ r1.minX - 5 <= r2.minX
    /\ r1.minY - 5 <= r2.minY
    /\ r1.maxX + 5 >= r2.maxX
    /\ r1.maxY + 5 >= r2.maxY

\* The "intersection" both overlap tests build with image.Rect: when the
\* rectangles are apart on an axis, image.Rect swaps the corners and the
\* result is the gap between them.
intersectionRect(r1, r2) ==
    Rect(Max(r1.minX, r2.minX), Max(r1.minY, r2.minY),
         Min(r1.maxX, r2.maxX), Min(r1.maxY, r2.maxY))

calcOverlapRatio(r1, r2) ==
    LET intersectionArea == rectArea(intersectionRect(r1, r2))
        smallerArea == Min(rectArea(r1), rectArea(r2))
    IN  IF intersectionArea <= 0 \/ smallerArea <= 0
        THEN ScoreZero
        ELSE Frac(intersectionArea, smallerArea)

\* Squared distance between the centres of r1 and r2.
centerDist2(r1, r2) ==
    LET cx == GoDiv(r1.minX + r1.maxX, 2) - GoDiv(r2.minX + r2.maxX, 2)
        cy == GoDiv(r1.minY + r1.maxY, 2) - GoDiv(r2.minY + r2.maxY, 2)
    IN  cx * cx + cy * cy

\* Squared length of the diagonal of r.
diagonal2(r) ==
    (r.maxX - r.minX) * (r.maxX - r.minX) + (r.maxY - r.minY) * (r.maxY - r.minY)

\* sqrt(d) < ((sqrt(p) + sqrt(q)) / 2) / 2, that is 16d - p - q < 2 sqrt(pq);
\* 2 sqrt(pq) <= p + q keeps the square within the integers.
SqrtLessQuarterSum(d, p, q) ==
    LET l == 16 * d - p - q
    IN  l < 0 \/ (l <= p + q /\ l * l < 4 * p * q)

\* const proximityThreshold = 10
doRectanglesOverlapOrTouch(r1, r2) ==
    LET overlapX == ~(r1.maxX + 10 <= r2.minX \/ r2.maxX + 10 <= r1.minX)
        overlapY == ~(r1.maxY + 10 <= r2.minY \/ r2.maxY + 10 <= r1.minY)
        intersectionArea == rectArea(intersectionRect(r1, r2))
    IN  IF ~overlapX \/ ~overlapY
        THEN FALSE
        ELSE IF intersectionArea <= 0
             THEN SqrtLessQuarterSum(centerDist2(r1, r2), diagonal2(r1), diagonal2(r2))
             ELSE intersectionArea >= GoDiv(Min(rectArea(r1), rectArea(r2)), 5)

\* const maxAreaRatio = 10.0; overlapRatio > 0.5
shouldMergeRects(r1, r2) ==
    IF ~doRectanglesOverlapOrTouch(r1, r2)
    THEN FALSE
    ELSE IF rectArea(r1) > rectArea(r2) * 10 \/ rectArea(r2) > rectArea(r1) * 10
         THEN ScoreGT(calcOverlapRatio(r1, r2), Frac(1, 2))
         ELSE TRUE

\* The first rectangle in place of the union.
unionRectanglesFirst(r1, r2) == r1

unionRectangles(r1, r2) ==
    Rect(Min(r1.minX, r2.minX), Min(r1.minY, r2.minY),
         Max(r1.maxX, r2.maxX), Max(r1.maxY, r2.maxY))

\* const maxAreaIncrease = 1.8
isReasonableMerge(r1, r2, mergedRect) ==
    5 * rectArea(mergedRect) <= 9 * (rectArea(r1) + rectArea(r2))

\* distance < float64(avgWidth+avgHeight)*0.15
areRectsSimilar(r1, r2) ==
    LET avgWidth == GoDiv(r1.maxX - r1.minX + r2.maxX - r2.minX, 2)
        avgHeight == GoDiv(r1.maxY - r1.minY + r2.maxY - r2.minY, 2)
    IN  400 * centerDist2(r1, r2) < 9 * (avgWidth + avgHeight) * (avgWidth + avgHeight)

\* The less function of sort.Slice: line 32 (ascending, invalid rectangles
\* compare false) and line 91 (descending).
rectLess(r1, r2, descending) ==
    IF descending
    THEN rectArea(r1) > rectArea(r2)
    ELSE IF ~isValidRect(r1) \/ ~isValidRect(r2)
         THEN FALSE
         ELSE rectArea(r1) < rectArea(r2)

\* sort.Slice on at most 12 elements is an insertion sort: element j moves
\* down while it is less than its predecessor.
RECURSIVE insertionSortInner(_, _, _)
insertionSortInner(data, j, descending) ==
    IF j > 1 /\ rectLess(data[j], data[j - 1], descending)
    THEN insertionSortInner(
             [data EXCEPT ![j] = data[j - 1], ![j - 1] = data[j]],
             j - 1, descending)
    ELSE data

RECURSIVE insertionSort(_, _, _)
insertionSort(data, i, descending) ==
    IF i > Len(data)
    THEN data
    ELSE insertionSort(insertionSortInner(data, i, descending), i + 1, descending)

sortSlice(data, descending) == insertionSort(data, 2, descending)

\* The body of the pair loop of mergeOverlappingRectangles for (i, j);
\* acc is [result, changed].
mergePair(acc, i, j) ==
    LET ri == acc.result[i]
        rj == acc.result[j]
    IN  IF ~isValidRect(ri) \/ ~isValidRect(rj)
        THEN acc
        ELSE IF containsRect(ri, rj)
        THEN [result |-> [acc.result EXCEPT ![j] = ZeroRect], changed |-> TRUE]
        ELSE IF containsRect(rj, ri)
        THEN [result |-> [acc.result EXCEPT ![i] = rj, ![j] = ZeroRect],
              changed |-> TRUE]
        ELSE IF /\ shouldMergeRects(ri, rj)
                /\ isReasonableMerge(ri, rj, unionRectangles(ri, rj))
        THEN [result |-> [acc.result EXCEPT ![i] = unionRectangles(ri, rj),
                                            ![j] = ZeroRect],
              changed |-> TRUE]
        ELSE acc

RECURSIVE mergeInner(_, _, _)
mergeInner(acc, i, j) ==
    IF j > Len(acc.result)
    THEN acc
    ELSE mergeInner(mergePair(acc, i, j), i, j + 1)

RECURSIVE mergeOuter(_, _)
mergeOuter(acc, i) ==
    IF i > Len(acc.result)
    THEN acc
    ELSE mergeOuter(mergeInner(acc, i, i + 1), i + 1)

\* One iteration of "for changed && iteration < maxIterations".
mergeIteration(result) ==
    LET acc == mergeOuter([result |-> filterValidRects(sortSlice(result, FALSE)),
                           changed |-> FALSE], 1)
    IN  [result |-> IF acc.changed THEN filterValidRects(acc.result) ELSE acc.result,
         changed |-> acc.changed]

\* One iteration in place of up to maxIterations.
mergeLoopOnce(result, changed, iteration) == mergeIteration(result).result

\* maxIterations := 20
RECURSIVE mergeLoop(_, _, _)
mergeLoop(result, changed, iteration) ==
    IF changed /\ iteration < 20
    THEN LET next == mergeIteration(result)
         IN  mergeLoop(next.result, next.changed, iteration + 1)
    ELSE result

\* if len(result) > 50: keep the 50 largest.
keepLargest(result) ==
    IF Len(result) > 50
    THEN SubSeq(sortSlice(result, TRUE), 1, 50)
    ELSE result

\* The body of the pair loop of finalizeRectangles for (i, j).
finalizePair(acc, i, j) ==
    LET ri == acc.result[i]
        rj == acc.result[j]
    IN  IF i = j \/ ~isValidRect(rj)
        THEN acc
        ELSE IF areRectsSimilar(ri, rj)
        THEN [result |-> IF rectArea(ri) >= rectArea(rj)
                         THEN [acc.result EXCEPT ![j] = ZeroRect]
                         ELSE [acc.result EXCEPT ![i] = rj, ![j] = ZeroRect],
              changed |-> TRUE]
        ELSE acc

RECURSIVE finalizeInner(_, _, _)
finalizeInner(acc, i, j) ==
    IF j > Len(acc.result)
    THEN acc
    ELSE finalizeInner(finalizePair(acc, i, j), i, j + 1)

RECURSIVE finalizeOuter(_, _)
finalizeOuter(acc, i) ==
    IF i > Len(acc.result)
    THEN acc
    ELSE IF ~isValidRect(acc.result[i])
         THEN finalizeOuter(acc, i + 1)
         ELSE finalizeOuter(finalizeInner(acc, i, 1), i + 1)

\* maxPasses := 3
RECURSIVE finalizeLoop(_, _, _)
finalizeLoop(result, changed, pass) ==
    IF changed /\ pass < 3
    THEN LET acc == finalizeOuter([result |-> result, changed |-> FALSE], 1)
         IN  finalizeLoop(IF acc.changed THEN filterValidRects(acc.result)
                          ELSE acc.result,
                          acc.changed, pass + 1)
    ELSE result

finalizeRectangles(rects) == finalizeLoop(rects, TRUE, 0)

mergeOverlappingRectangles(rects) ==
    IF Len(rects) <= 1
    THEN rects
    ELSE finalizeRectangles(keepLargest(mergeLoop(rects, TRUE, 0)))

(***************************************************************************)
(* groupDiffRegions(diffMap, bounds) and detectDiffRegions.  diffMap is    *)
(* the set of cells set true together with its size w x h                  *)
(* (len(diffMap[0]) x len(diffMap)).                                       *)
(***************************************************************************)
SetMin(S) == CHOOSE m \in S : \A n \in S : m <= n

SetMax(S) == CHOOSE m \in S : \A n \in S : m >= n

\* The cells the +-10 neighbourhood scan of cell (x, y) finds set.
neighbourCells(cells, w, h, x, y) ==
    {c \in cells : /\ c[1] >= x - 10 /\ c[1] <= x + 10
                   /\ c[2] >= y - 10 /\ c[2] <= y + 10
                   /\ c[1] >= 0 /\ c[1] < w /\ c[2] >= 0 /\ c[2] < h}

\* The rectangle appended for the neighbourhood found: padding := 5.
paddedRegion(near, w, h, bounds) ==
    Rect(bounds.minX + Max(0, SetMin({c[1] : c \in near}) - 5),
         bounds.minY + Max(0, SetMin({c[2] : c \in near}) - 5),
         bounds.minX + Min(w - 1, SetMax({c[1] : c \in near}) + 5) + 1,
         bounds.minY + Min(h - 1, SetMax({c[2] : c \in near}) + 5) + 1)

\* The body of the scan for cell (x, y); acc is [regions, visited].
groupCell(acc, cells, w, h, bounds, x, y) ==
    IF <<x, y>> \in cells /\ <<x, y>> \notin acc.visited
    THEN [regions |-> Append(acc.regions,
                             paddedRegion(neighbourCells(cells, w, h, x, y),
                                          w, h, bounds)),
          visited |-> acc.visited \cup neighbourCells(cells, w, h, x, y)]
    ELSE acc

\* The scan "for y .. for x ..": the body acts only on a cell that is set
\* and not visited, so the scan is a walk over those cells in row-major
\* order.
RECURSIVE groupScan(_, _, _, _, _)
groupScan(acc, cells, w, h, bounds) ==
    LET todo == {c \in cells \ acc.visited :
                     c[1] >= 0 /\ c[1] < w /\ c[2] >= 0 /\ c[2] < h}
        first == CHOOSE c \in todo :
                     \A d \in todo : c[2] < d[2] \/ (c[2] = d[2] /\ c[1] <= d[1])
    IN  IF todo = {}
        THEN acc
        ELSE groupScan(groupCell(acc, cells, w, h, bounds, first[1], first[2]),
                       cells, w, h, bounds)

\* A region narrower or lower than minSize := 20 is replaced by one of at
\* least that size around its centre, clipped to bounds.
enlargeRegion(rect, bounds) ==
    LET width == rect.maxX - rect.minX
        height == rect.maxY - rect.minY
        centerX == GoDiv(rect.minX + rect.maxX, 2)
        centerY == GoDiv(rect.minY + rect.maxY, 2)
        newWidth == Max(width, 20)
        newHeight == Max(height, 20)
    IN  IF width < 20 \/ height < 20
        THEN Rect(Max(bounds.minX, centerX - GoDiv(newWidth, 2)),
                  Max(bounds.minY, centerY - GoDiv(newHeight, 2)),
                  Min(bounds.maxX, centerX + GoDiv(newWidth, 2)),
                  Min(bounds.maxY, centerY + GoDiv(newHeight, 2)))
        ELSE rect

\* regions after the scan, before the minimum size is enforced.
scannedRegions(cells, w, h, bounds) ==
    groupScan([regions |-> <<>>, visited |-> {}], cells, w, h, bounds).regions

filteredRegions(cells, w, h, bounds) ==
    LET regions == scannedRegions(cells, w, h, bounds)
    IN  [k \in 1..Len(regions) |-> enlargeRegion(regions[k], bounds)]

groupDiffRegions(cells, w, h, bounds) ==
    mergeOverlappingRectangles(filteredRegions(cells, w, h, bounds))

Bounds(img) ==
    [minX |-> img.minX, minY |-> img.minY, maxX |-> img.maxX, maxY |-> img.maxY]

detectDiffRegions(A, B, offsetX, offsetY, c) ==
    groupDiffRegions(DetectScan(A, B, offsetX, offsetY, c).cells,
                     Dx(B), Dy(B), Bounds(B))

(***************************************************************************)
(* blendColors.  The float64 parameters transparency, tintStrength and     *)
(* tintTransparency are exact fractions n/d in [0, 1]; the inputs of the   *)
(* model are multiples of 1/4, for which the float64 arithmetic is exact.  *)
(* uint8(f) of a float64 in [0, 255] drops the fractional part.            *)
(***************************************************************************)
\* The 8-bit channel read from a color.RGBA: RGBA() returns v | v << 8,
\* and the code keeps uint8(that >> 8).
Channel8(v) == ((v * 257) \div 256) % 256

\* Rounding to the nearest integer in place of uint8(...).
MixChannelRounded(a, b, t) ==
    (2 * (a * (t.d - t.n) + b * t.n) + t.d) \div (2 * t.d)

\* uint8(float64(a) * (1 - t) + float64(b) * t)
MixChannel(a, b, t) == (a * (t.d - t.n) + b * t.n) \div t.d

\* (transparency + tintTransparency) / 2
effectiveTransparency(transparency, tintTransparency) ==
    Frac(transparency.n * tintTransparency.d + tintTransparency.n * transparency.d,
         2 * transparency.d * tintTransparency.d)

\* The src channels moved toward the tint by tintStrength.
TintedSrc(src, tint, tintStrength) ==
    [r |-> MixChannel(Channel8(src.r), tint.r, tintStrength),
     g |-> MixChannel(Channel8(src.g), tint.g, tintStrength),
     b |-> MixChannel(Channel8(src.b), tint.b, tintStrength)]

blendColors(dst, src, transparency, tint, useTint, tintStrength, tintTransparency) ==
    LET t  == TintedSrc(src, tint, tintStrength)
        et == effectiveTransparency(transparency, tintTransparency)
        a  == Max(Channel8(src.a), Channel8(dst.a))
    IN  IF useTint
        THEN RGBA(MixChannel(t.r, Channel8(dst.r), et),
                  MixChannel(t.g, Channel8(dst.g), et),
                  MixChannel(t.b, Channel8(dst.b), et),
                  a)
        ELSE RGBA(MixChannel(Channel8(src.r), Channel8(dst.r), transparency),
                  MixChannel(Channel8(src.g), Channel8(dst.g), transparency),
                  MixChannel(Channel8(src.b), Channel8(dst.b), transparency),
                  a)

(***************************************************************************)
(* drawRedBorders and GenerateDiffImage.  The canvas is an image whose     *)
(* bounds start at (0, 0); img.Set outside the canvas does nothing.        *)
(***************************************************************************)
Red == RGBA(255, 0, 0, 255)

\* The pixels the overlay loops visit: borderThickness := 3 inside rect.
InOverlayArea(rect, x, y) ==
    /\ rect.minX + 3 <= x /\ x < rect.maxX - 3
    /\ rect.minY + 3 <= y /\ y < rect.maxY - 3

\* The pixels the four border loops set: the three outermost rows and
\* columns of rect.
InBorder(rect, x, y) ==
    /\ rect.minX <= x /\ x < rect.maxX
    /\ rect.minY <= y /\ y < rect.maxY
    /\ \/ y < rect.minY + 3 \/ y > rect.maxY - 1 - 3
       \/ x < rect.minX + 3 \/ x > rect.maxX - 1 - 3

\* The colour of canvas pixel (x, y) after step 1 for rect.
OverlayPixel(img, rect, srcImgA, offsetX, offsetY, c, x, y) ==
    LET p == OverlaySrcPoint(offsetX, offsetY, x, y)
    IN  IF /\ c.ShowTransparentOverlay
           /\ InOverlayArea(rect, x, y)
           /\ p.srcX >= srcImgA.minX /\ p.srcX < srcImgA.maxX
           /\ p.srcY >= srcImgA.minY /\ p.srcY < srcImgA.maxY
        THEN blendColors(img.pix[<<x, y>>],
                         At(srcImgA, srcImgA.minX + p.srcX, srcImgA.minY + p.srcY),
                         c.OverlayTransparency, c.OverlayTint, c.UseTint,
                         c.TintStrength, c.TintTransparency)
        ELSE img.pix[<<x, y>>]

\* The body of "for _, rect := range regions": overlay, then border.
drawRegion(img, rect, srcImgA, offsetX, offsetY, c) ==
    [img EXCEPT !.pix =
        [q \in DOMAIN img.pix |->
            IF InBorder(rect, q[1], q[2])
            THEN Red
            ELSE OverlayPixel(img, rect, srcImgA, offsetX, offsetY, c, q[1], q[2])]]

RECURSIVE drawRegionsFrom(_, _, _, _, _, _, _)
drawRegionsFrom(img, regions, k, srcImgA, offsetX, offsetY, c) ==
    IF k > Len(regions)
    THEN img
    ELSE drawRegionsFrom(drawRegion(img, regions[k], srcImgA, offsetX, offsetY, c),
                         regions, k + 1, srcImgA, offsetX, offsetY, c)

drawRedBorders(img, regions, srcImgA, offsetX, offsetY, c) ==
    drawRegionsFrom(img, regions, 1, srcImgA, offsetX, offsetY, c)

\* image.NewRGBA of max width x max height with imgB drawn at (0, 0);
\* draw.Draw leaves the pixels outside imgB at the zero colour.
BaseCanvas(A, B) ==
    LET width  == Max(Dx(A), Dx(B))
        height == Max(Dy(A), Dy(B))
    IN  [minX |-> 0, minY |-> 0, maxX |-> width, maxY |-> height,
         pix |-> [q \in {<<x, y>> : x \in 0..(width - 1), y \in 0..(height - 1)} |->
                     At(B, B.minX + q[1], B.minY + q[2])]]

GenerateDiffImage(A, B, offsetX, offsetY, c) ==
    drawRedBorders(BaseCanvas(A, B), detectDiffRegions(A, B, offsetX, offsetY, c),
                   A, offsetX, offsetY, c)

(***************************************************************************)
(* Inputs of the model.  Images are decoded files or image.NewRGBA         *)
(* fixtures, whose bounds start at (0, 0).  The generic inputs are all     *)
(* images up to MaxDim x MaxDim that are all black, all white, or black    *)
(* with one white pixel; the fixture is the 10x10 / 5x5 pair of            *)
(* TestCalculateSimilarityScore.                                           *)
(***************************************************************************)
MaxDim == 2

MaxShift == 1

MaxRate == 2

DefaultThreshold == 30

FixtureSizeA == 10

FixtureSizeD == 5

FixtureOffsetX == 2

FixtureOffsetY == 3

FixtureThreshold == 10

Palette == {Black, White}

Thresholds == {0, DefaultThreshold}

Cells(w, h) == {<<x, y>> : x \in 0..(w - 1), y \in 0..(h - 1)}

Image(w, h, f) ==
    [minX |-> 0, minY |-> 0, maxX |-> w, maxY |-> h,
     pix |-> [p \in Cells(w, h) |-> f[p]]]

Uniform(w, h, bg) == Image(w, h, [p \in Cells(w, h) |-> bg])

Spot(w, h, bg, at, fg) ==
    Image(w, h, [p \in Cells(w, h) |-> IF p = at THEN fg ELSE bg])

Images ==
    UNION {{Uniform(w, h, bg) : bg \in Palette}
               \cup {Spot(w, h, Black, at, White) : at \in Cells(w, h)}
           : w \in 0..MaxDim, h \in 0..MaxDim}

Config(maxOff, threshold, numCPU, rate, fast) ==
    [MaxOffset |-> maxOff, Threshold |-> threshold, NumCPU |-> numCPU,
     SamplingRate |-> rate, FastMode |-> fast]

\* No worker pool exists.
PoolIdle ==
    /\ win = [minX |-> 0, maxX |-> 0, minY |-> 0, maxY |-> 0]
    /\ offsets = <<>>
    /\ sendIdx = 0
    /\ offsetCh = <<>>
    /\ offsetChClosed = FALSE
    /\ results = <<>>
    /\ resultsClosed = FALSE
    /\ idle = 0
    /\ inflight = {}
    /\ wg = 0
    /\ closer = "none"
    /\ best = [x |-> 0, y |-> 0, score |-> ScoreZero]
    /\ processed = 0
    /\ taken = <<>>
    /\ emitted = {}
    /\ emitCount = 0
    /\ collected = {}

\* The locals of the search functions before FindBestAlignment runs.
SearchIdle(at) ==
    /\ pc = at
    /\ samplingStages = <<>>
    /\ stageIdx = 0
    /\ maxOffset = 0
    /\ searchMaxOffset = 0
    /\ origSamplingRate = 0
    /\ bestOffset = <<0, 0>>
    /\ ret = <<>>
    /\ PoolIdle

NoCall ==
    /\ fn = "none"
    /\ score = ScoreZero
    /\ diffMap = {}
    /\ hasDiff = FALSE
    /\ diffRegions = <<>>
    /\ canvas = <<>>
    /\ blended = ZeroColor
    /\ touching = FALSE
    /\ exitStatus = -1
    /\ saved = FALSE

\* The call is not made from the command line.
NoOptions == opts = <<>>

\* No rectangle list and no blendColors arguments are given.
NoRenderArgs ==
    /\ rectsArg = <<>>
    /\ blendArgs = <<>>

(***************************************************************************)
(* Direct calls of the three pixel-comparing functions on any input.       *)
(***************************************************************************)
InitCalls ==
    /\ \/ /\ imgA \in Images
          /\ imgB \in Images
          /\ argX \in -MaxShift..MaxShift
          /\ argY \in -MaxShift..MaxShift
          /\ \E t \in Thresholds, r \in 1..MaxRate :
                 cfg = Config(0, t, 1, r, FALSE)
       \/ /\ imgA = Uniform(FixtureSizeA, FixtureSizeA, White)
          /\ imgB = Uniform(FixtureSizeD, FixtureSizeD, White)
          /\ argX = FixtureOffsetX
          /\ argY = FixtureOffsetY
          /\ cfg = Config(0, FixtureThreshold, 1, 1, FALSE)
    /\ callerRate = cfg.SamplingRate
    /\ NoCall
    /\ NoOptions
    /\ NoRenderArgs
    /\ SearchIdle("idle")

CallScore ==
    /\ fn = "none"
    /\ fn' = "score"
    /\ score' = calculateSimilarityScore(imgA, imgB, argX, argY, cfg)
    /\ UNCHANGED <<imgA, imgB, cfg, callerRate, argX, argY, diffMap, hasDiff>>
    /\ UNCHANGED <<searchVars, mainVars, renderVars, mainVars>>

CallDetect ==
    /\ fn = "none"
    /\ fn' = "detect"
    /\ diffMap' = DetectScan(imgA, imgB, argX, argY, cfg).cells
    /\ diffRegions' = detectDiffRegions(imgA, imgB, argX, argY, cfg)
    /\ UNCHANGED <<imgA, imgB, cfg, callerRate, argX, argY, score, hasDiff>>
    /\ UNCHANGED <<searchVars, mainVars, rectsArg, canvas, blendArgs, blended>>

CallHasDifferences ==
    /\ fn = "none"
    /\ fn' = "hasdiff"
    /\ hasDiff' = HasDifferences(imgA, imgB, argX, argY, cfg)
    /\ UNCHANGED <<imgA, imgB, cfg, callerRate, argX, argY, score, diffMap>>
    /\ UNCHANGED <<searchVars, mainVars, renderVars, mainVars>>

\* detectDifferences once the offset is known: HasDifferences, then the
\* detectDiffRegions of GenerateDiffImage, at the same offset.
CallDetectDifferences ==
    /\ fn = "none"
    /\ fn' = "differences"
    /\ hasDiff' = HasDifferences(imgA, imgB, argX, argY, cfg)
    /\ diffMap' = DetectScan(imgA, imgB, argX, argY, cfg).cells
    /\ diffRegions' = detectDiffRegions(imgA, imgB, argX, argY, cfg)
    /\ UNCHANGED <<imgA, imgB, cfg, callerRate, argX, argY, score>>
    /\ UNCHANGED <<searchVars, mainVars, rectsArg, canvas, blendArgs, blended>>

NextCalls == CallScore \/ CallDetect \/ CallHasDifferences \/ CallDetectDifferences

SpecCalls == InitCalls /\ [][NextCalls]_vars

(***************************************************************************)
(* Detection and rendering of whole images.  The inputs are pairs of an    *)
(* all-black imgA and an imgB that is black with white pixels: a small     *)
(* pair with imgA larger than imgB, a pair that differs in one dark grey   *)
(* pixel, a 21x2 pair whose differing pixels                               *)
(* form one region, and a 32x27 pair compared at sampling rate 5 whose     *)
(* differing pixels form two regions.  drawRedBorders is also called on    *)
(* region lists given directly.                                            *)
(***************************************************************************)
SpotsImage(w, h, bg, spots, fg) ==
    Image(w, h, [p \in Cells(w, h) |-> IF p \in spots THEN fg ELSE bg])

\* <<imgA, imgB, sampling rate>>
DiffInputs ==
    {<<Uniform(3, 2, Black), SpotsImage(2, 2, Black, {<<1, 1>>}, White), 1>>,
     <<Uniform(2, 2, Black), Uniform(2, 2, Black), 1>>,
     <<Uniform(2, 2, Black),
       SpotsImage(2, 2, Black, {<<1, 1>>}, RGBA(20, 20, 20, 255)), 1>>,
     <<Uniform(21, 2, Black),
       SpotsImage(21, 2, Black, {<<10, 0>>, <<5, 1>>, <<20, 1>>}, White), 1>>,
     <<Uniform(32, 27, Black),
       SpotsImage(32, 27, Black, {<<5, 5>>, <<20, 15>>}, White), 5>>}

\* Values of OverlayTransparency, TintStrength and TintTransparency.
Levels == {Frac(1, 4), Frac(3, 4)}

RenderConfig(threshold, rate, overlay, transparency, useTint, strength, tintTransp) ==
    Config(0, threshold, 1, rate, FALSE)
        @@ [ShowTransparentOverlay |-> overlay,
            OverlayTransparency    |-> transparency,
            OverlayTint            |-> Red,
            UseTint                |-> useTint,
            TintStrength           |-> strength,
            TintTransparency       |-> tintTransp]

RenderConfigs(rate) ==
    {RenderConfig(DefaultThreshold, rate, overlay, transparency, useTint,
                  tintStrength, tintTransparency) :
        overlay \in BOOLEAN, useTint \in BOOLEAN, transparency \in Levels,
        tintStrength \in Levels, tintTransparency \in Levels}

\* Region lists for a direct call of drawRedBorders: one region, two
\* overlapping regions in both orders, a region that leaves the canvas.
RegionLists ==
    {<<Rect(0, 0, 2, 2)>>,
     <<Rect(0, 0, 10, 10), Rect(5, 1, 15, 11)>>,
     <<Rect(5, 1, 15, 11), Rect(0, 0, 10, 10)>>,
     <<Rect(12, -4, 40, 8)>>}

InitDiff ==
    /\ \E d \in DiffInputs :
           /\ imgA = d[1]
           /\ imgB = d[2]
           /\ cfg \in RenderConfigs(d[3])
    /\ argX = 0
    /\ argY = 0
    /\ callerRate = cfg.SamplingRate
    /\ NoCall
    /\ NoOptions
    /\ rectsArg \in RegionLists
    /\ blendArgs = <<>>
    /\ SearchIdle("idle")

CallGenerateDiffImage ==
    /\ fn = "none"
    /\ fn' = "generate"
    /\ diffMap' = DetectScan(imgA, imgB, argX, argY, cfg).cells
    /\ diffRegions' = detectDiffRegions(imgA, imgB, argX, argY, cfg)
    /\ canvas' = drawRedBorders(BaseCanvas(imgA, imgB), diffRegions',
                                imgA, argX, argY, cfg)
    /\ UNCHANGED <<imgA, imgB, cfg, callerRate, argX, argY, score, hasDiff>>
    /\ UNCHANGED <<searchVars, mainVars, rectsArg, blendArgs, blended>>

CallDrawRedBorders ==
    /\ fn = "none"
    /\ fn' = "borders"
    /\ canvas' = drawRedBorders(BaseCanvas(imgA, imgB), rectsArg,
                                imgA, argX, argY, cfg)
    /\ UNCHANGED <<imgA, imgB, cfg, callerRate, argX, argY, score, diffMap, hasDiff>>
    /\ UNCHANGED <<searchVars, mainVars, rectsArg, diffRegions, blendArgs, blended>>

NextDiff == CallDetect \/ CallGenerateDiffImage \/ CallDrawRedBorders

SpecDiff == InitDiff /\ [][NextDiff]_vars

(***************************************************************************)
(* Direct calls of mergeOverlappingRectangles.  The rectangles are those   *)
(* of TestMergeOverlappingRectangles together with a square and a square   *)
(* 3 inside it, and a horizontal and a vertical bar that cross; the lists  *)
(* are all lists of 1..MaxRects of them, in every order.  The result is    *)
(* passed to the function once more.                                       *)
(***************************************************************************)
MaxRects == 3

MergeRects ==
    {Rect(10, 10, 30, 30), Rect(20, 20, 40, 40), Rect(25, 25, 45, 45),
     Rect(40, 40, 60, 60), Rect(10, 10, 50, 50), Rect(32, 10, 50, 30),
     Rect(0, 0, 30, 30), Rect(3, 3, 27, 27),
     Rect(0, 15, 40, 25), Rect(15, 0, 25, 40)}

RectLists == UNION {[1..n -> MergeRects] : n \in 1..MaxRects}

InitRects ==
    /\ imgA = Uniform(0, 0, Black)
    /\ imgB = Uniform(0, 0, Black)
    /\ argX = 0
    /\ argY = 0
    /\ cfg = Config(0, DefaultThreshold, 1, 1, FALSE)
    /\ callerRate = cfg.SamplingRate
    /\ NoCall
    /\ NoOptions
    /\ rectsArg \in RectLists
    /\ blendArgs = <<>>
    /\ SearchIdle("idle")

CallMerge ==
    /\ fn = "none"
    /\ fn' = "merge"
    /\ diffRegions' = mergeOverlappingRectangles(rectsArg)
    /\ UNCHANGED <<inputVars, cfg, argX, argY, score, diffMap, hasDiff>>
    /\ UNCHANGED <<searchVars, mainVars, rectsArg, canvas, blendArgs, blended>>

\* The list returned is merged again.
CallMergeAgain ==
    /\ fn = "merge"
    /\ fn' = "merged again"
    /\ rectsArg' = diffRegions
    /\ diffRegions' = mergeOverlappingRectangles(diffRegions)
    /\ UNCHANGED <<inputVars, cfg, argX, argY, score, diffMap, hasDiff>>
    /\ UNCHANGED <<searchVars, mainVars, canvas, blendArgs, blended>>

\* doRectanglesOverlapOrTouch on two rectangles of the list.
CallOverlapOrTouch ==
    /\ fn = "none"
    /\ fn' = "overlap"
    /\ \E i, j \in 1..Len(rectsArg) :
           /\ rectsArg' = <<rectsArg[i], rectsArg[j]>>
           /\ touching' = doRectanglesOverlapOrTouch(rectsArg[i], rectsArg[j])
    /\ UNCHANGED <<inputVars, cfg, argX, argY, score, diffMap, hasDiff>>
    /\ UNCHANGED <<searchVars, diffRegions, canvas, blendArgs, blended>>
    /\ UNCHANGED <<opts, exitStatus, saved>>

NextRects == CallMerge \/ CallMergeAgain \/ CallOverlapOrTouch

SpecRects == InitRects /\ [][NextRects]_vars

(***************************************************************************)
(* Direct calls of blendColors.  The colours are color.RGBA values with    *)
(* channels 0, 101 and 255; transparency, tintStrength and                 *)
(* tintTransparency are multiples of 1/4 in [0, 1], the range to which     *)
(* createAppConfig clamps them; the tint is red or the green of            *)
(* TestBlendColors.                                                        *)
(***************************************************************************)
BlendColours ==
    {RGBA(r, g, 0, a) : r \in {0, 101, 255}, g \in {0, 255}, a \in {0, 255}}

Quarters == {Frac(k, 4) : k \in 0..4}

BlendInputs ==
    [dst : BlendColours, src : BlendColours, transparency : Quarters,
     tint : {Red, RGBA(0, 255, 0, 255)}, useTint : BOOLEAN,
     tintStrength : {Frac(0, 4), Frac(2, 4), Frac(3, 4)},
     tintTransparency : {Frac(0, 4), Frac(1, 4), Frac(2, 4)}]

InitBlend ==
    /\ imgA = Uniform(0, 0, Black)
    /\ imgB = Uniform(0, 0, Black)
    /\ argX = 0
    /\ argY = 0
    /\ cfg = Config(0, DefaultThreshold, 1, 1, FALSE)
    /\ callerRate = cfg.SamplingRate
    /\ NoCall
    /\ NoOptions
    /\ rectsArg = <<>>
    /\ blendArgs \in BlendInputs
    /\ SearchIdle("idle")

CallBlendColors ==
    /\ fn = "none"
    /\ fn' = "blend"
    /\ blended' = blendColors(blendArgs.dst, blendArgs.src, blendArgs.transparency,
                              blendArgs.tint, blendArgs.useTint,
                              blendArgs.tintStrength, blendArgs.tintTransparency)
    /\ UNCHANGED <<inputVars, cfg, argX, argY, score, diffMap, hasDiff>>
    /\ UNCHANGED <<searchVars, mainVars, rectsArg, diffRegions, canvas, blendArgs>>

NextBlend == CallBlendColors

SpecBlend == InitBlend /\ [][NextBlend]_vars

(***************************************************************************)
(* FindBestAlignment.  The worker pool of FindBestAlignment (exhaustive)   *)
(* and of searchBestOffsetInRange (each progressive stage) is the same     *)
(* code twice: numWorkers anonymous goroutines ranging over offsetCh, a    *)
(* producer loop in the calling goroutine, a goroutine that waits for the  *)
(* WaitGroup and closes results, and the collector loop in the calling     *)
(* goroutine.  Each channel operation is one step.                         *)
(***************************************************************************)
MaxWorkers == 2

MaxRadius == 1

SearchWidth == 3

CenterSpot == Spot(SearchWidth, 1, Black, <<1, 0>>, White)

SearchImagesA == {Uniform(SearchWidth, 1, Black), CenterSpot}

SearchImagesB ==
    {Uniform(SearchWidth, 1, Black)}
        \cup {Spot(SearchWidth, 1, Black, at, White) : at \in Cells(SearchWidth, 1)}

\* The exhaustive search runs with 1..MaxWorkers workers.  A progressive
\* stage scans 25 candidates or more whatever maxOffset is, and runs here
\* with one worker.
SearchConfigs ==
    {Config(m, DefaultThreshold, n, r, FALSE) :
         m \in 0..MaxRadius, n \in 1..MaxWorkers, r \in 1..MaxRate}
        \cup {Config(m, DefaultThreshold, 1, r, TRUE) :
                  m \in 0..MaxRadius, r \in 1..MaxRate}

\* An offsets slice that stops one column short of maxX.
CandidatesShort(minX, maxX, minY, maxY) ==
    LET w == maxX - minX
        h == maxY - minY + 1
    IN  IF w <= 0 \/ h <= 0
        THEN <<>>
        ELSE [i \in 1..(w * h) |-> <<minX + ((i - 1) % w), minY + ((i - 1) \div w)>>]

\* The offsets slice of a window, y outermost.
Candidates(minX, maxX, minY, maxY) ==
    LET w == maxX - minX + 1
        h == maxY - minY + 1
    IN  IF w <= 0 \/ h <= 0
        THEN <<>>
        ELSE [i \in 1..(w * h) |-> <<minX + ((i - 1) % w), minY + ((i - 1) \div w)>>]

\* Channels that buffer one element only.
ChanCapOne(totalOffsets) == Min(1, totalOffsets)

\* make(chan .., totalOffsets): the capacity of offsetCh and of results.
ChanCap(totalOffsets) == totalOffsets

numWorkers == Min(cfg.NumCPU, Len(offsets))

\* A collector that keeps the smaller score.
IsBetterReversed(resultScore, bestScore) == ScoreGT(bestScore, resultScore)

\* The collector's "if result.score > bestScore".
IsBetter(resultScore, bestScore) == ScoreGT(resultScore, bestScore)

\* The state a search function sets up before it starts its workers.
PoolSetup(minX, maxX, minY, maxY) ==
    /\ win' = [minX |-> minX, maxX |-> maxX, minY |-> minY, maxY |-> maxY]
    /\ offsets' = Candidates(minX, maxX, minY, maxY)
    /\ sendIdx' = 0
    /\ offsetCh' = <<>>
    /\ offsetChClosed' = FALSE
    /\ results' = <<>>
    /\ resultsClosed' = FALSE
    /\ idle' = 0
    /\ inflight' = {}
    /\ wg' = 0
    /\ closer' = "none"
    /\ best' = [x |-> 0, y |-> 0, score |-> ScoreZero]
    /\ processed' = 0
    /\ taken' = <<>>
    /\ emitted' = {}
    /\ emitCount' = 0
    /\ collected' = {}

InitSearch ==
    /\ imgA \in SearchImagesA
    /\ imgB \in SearchImagesB
    /\ cfg \in SearchConfigs
    /\ callerRate = cfg.SamplingRate
    /\ argX = 0
    /\ argY = 0
    /\ NoCall
    /\ NoOptions
    /\ NoRenderArgs
    /\ SearchIdle("call")

\* FindBestAlignment with FastMode false, up to the start of the workers.
EnterExhaustive ==
    /\ pc = "call"
    /\ ~cfg.FastMode
    /\ maxOffset' = cfg.MaxOffset
    /\ PoolSetup(-cfg.MaxOffset, cfg.MaxOffset, -cfg.MaxOffset, cfg.MaxOffset)
    /\ pc' = "spawn"
    /\ UNCHANGED <<samplingStages, stageIdx, searchMaxOffset, origSamplingRate,
                   bestOffset, ret, cfg>>
    /\ UNCHANGED <<inputVars, callVars, renderVars, mainVars>>

\* findBestAlignmentWithProgressiveSampling, up to its stage loop.
EnterProgressive ==
    /\ pc = "call"
    /\ cfg.FastMode
    /\ samplingStages' = <<8, 4, 2>>
                            \o <<IF cfg.SamplingRate > 1 THEN cfg.SamplingRate ELSE 1>>
    /\ maxOffset' = cfg.MaxOffset
    /\ bestOffset' = <<0, 0>>
    /\ stageIdx' = 0
    /\ pc' = "stage"
    /\ UNCHANGED <<searchMaxOffset, origSamplingRate, ret, cfg>>
    /\ UNCHANGED <<poolVars, inputVars, callVars, renderVars, mainVars>>

\* One iteration of the stage loop up to the start of the stage's workers:
\* the sampling rate is written into the shared configuration.
StageBegin ==
    /\ pc = "stage"
    /\ origSamplingRate' = cfg.SamplingRate
    /\ cfg' = [cfg EXCEPT !.SamplingRate = samplingStages[stageIdx + 1]]
    /\ searchMaxOffset' = IF stageIdx > 0
                          THEN Max(2, maxOffset \div (2 * stageIdx))
                          ELSE maxOffset
    /\ PoolSetup(bestOffset[1] - searchMaxOffset', bestOffset[1] + searchMaxOffset',
                 bestOffset[2] - searchMaxOffset', bestOffset[2] + searchMaxOffset')
    /\ pc' = "spawn"
    /\ UNCHANGED <<samplingStages, stageIdx, maxOffset, bestOffset, ret>>
    /\ UNCHANGED <<inputVars, callVars, renderVars, mainVars>>

\* for i := 0; i < numWorkers; i++ { wg.Add(1); go func() {...}() }
StartWorkers ==
    /\ pc = "spawn"
    /\ idle' = numWorkers
    /\ wg' = numWorkers
    /\ pc' = "produce"
    /\ UNCHANGED <<win, offsets, sendIdx, offsetCh, offsetChClosed, results,
                   resultsClosed, inflight, closer, best, processed, taken,
                   emitted, emitCount, collected>>
    /\ UNCHANGED <<stageVars, ret, cfg, inputVars, callVars, renderVars, mainVars>>

\* offsetCh <- offset
ProducerSend ==
    /\ pc = "produce"
    /\ sendIdx < Len(offsets)
    /\ Len(offsetCh) < ChanCap(Len(offsets))
    /\ offsetCh' = Append(offsetCh, offsets[sendIdx + 1])
    /\ sendIdx' = sendIdx + 1
    /\ UNCHANGED <<win, offsets, offsetChClosed, results, resultsClosed, idle,
                   inflight, wg, closer, best, processed, taken, emitted,
                   emitCount, collected>>
    /\ UNCHANGED <<pc, stageVars, ret, cfg, inputVars, callVars, renderVars, mainVars>>

\* close(offsetCh); go func() { wg.Wait(); close(results) }()
ProducerClose ==
    /\ pc = "produce"
    /\ sendIdx = Len(offsets)
    /\ offsetChClosed' = TRUE
    /\ closer' = "waiting"
    /\ pc' = "collect"
    /\ UNCHANGED <<win, offsets, sendIdx, offsetCh, results, resultsClosed, idle,
                   inflight, wg, best, processed, taken, emitted, emitCount,
                   collected>>
    /\ UNCHANGED <<stageVars, ret, cfg, inputVars, callVars, renderVars, mainVars>>

\* A worker: "for offset := range offsetCh" receives a candidate.
WorkerRecv ==
    /\ idle > 0
    /\ offsetCh # <<>>
    /\ offsetCh' = Tail(offsetCh)
    /\ inflight' = inflight \cup {Head(offsetCh)}
    /\ idle' = idle - 1
    /\ taken' = Append(taken, Head(offsetCh))
    /\ UNCHANGED <<win, offsets, sendIdx, offsetChClosed, results, resultsClosed,
                   wg, closer, best, processed, emitted, emitCount, collected>>
    /\ UNCHANGED <<pc, stageVars, ret, cfg, inputVars, callVars, renderVars, mainVars>>

\* A worker scores its candidate with the shared configuration and sends
\* the result.
WorkerSend ==
    \E o \in inflight :
        /\ Len(results) < ChanCap(Len(offsets))
        /\ results' = Append(results,
               [offsetX |-> o[1], offsetY |-> o[2],
                score |-> calculateSimilarityScore(imgA, imgB, o[1], o[2], cfg)])
        /\ inflight' = inflight \ {o}
        /\ idle' = idle + 1
        /\ emitted' = emitted \cup {o}
        /\ emitCount' = emitCount + 1
        /\ UNCHANGED <<win, offsets, sendIdx, offsetCh, offsetChClosed,
                       resultsClosed, wg, closer, best, processed, taken,
                       collected>>
        /\ UNCHANGED <<pc, stageVars, ret, cfg, inputVars, callVars, renderVars, mainVars>>

\* A worker: offsetCh is closed and drained, the range loop ends, wg.Done().
WorkerExit ==
    /\ idle > 0
    /\ offsetCh = <<>>
    /\ offsetChClosed
    /\ idle' = idle - 1
    /\ wg' = wg - 1
    /\ UNCHANGED <<win, offsets, sendIdx, offsetCh, offsetChClosed, results,
                   resultsClosed, inflight, closer, best, processed, taken,
                   emitted, emitCount, collected>>
    /\ UNCHANGED <<pc, stageVars, ret, cfg, inputVars, callVars, renderVars, mainVars>>

\* wg.Wait() returns; close(results)
CloserClose ==
    /\ closer = "waiting"
    /\ wg = 0
    /\ resultsClosed' = TRUE
    /\ closer' = "done"
    /\ UNCHANGED <<win, offsets, sendIdx, offsetCh, offsetChClosed, results,
                   idle, inflight, wg, best, processed, taken, emitted,
                   emitCount, collected>>
    /\ UNCHANGED <<pc, stageVars, ret, cfg, inputVars, callVars, renderVars, mainVars>>

\* The collector: "for result := range results" receives one result.
CollectRecv ==
    /\ pc = "collect"
    /\ results # <<>>
    /\ results' = Tail(results)
    /\ processed' = processed + 1
    /\ collected' = collected \cup {<<Head(results).offsetX, Head(results).offsetY>>}
    /\ best' = IF IsBetter(Head(results).score, best.score)
               THEN [x |-> Head(results).offsetX, y |-> Head(results).offsetY,
                     score |-> Head(results).score]
               ELSE best
    /\ UNCHANGED <<win, offsets, sendIdx, offsetCh, offsetChClosed, resultsClosed,
                   idle, inflight, wg, closer, taken, emitted, emitCount>>
    /\ UNCHANGED <<pc, stageVars, ret, cfg, inputVars, callVars, renderVars, mainVars>>

\* FindBestAlignment (exhaustive): results is closed and drained; return.
ReturnExhaustive ==
    /\ pc = "collect"
    /\ fn = "none"
    /\ ~cfg.FastMode
    /\ results = <<>>
    /\ resultsClosed
    /\ ret' = <<best.x, best.y>>
    /\ pc' = "done"
    /\ UNCHANGED <<poolVars, stageVars, cfg, inputVars, callVars, renderVars, mainVars>>

\* A stage loop that does not restore the sampling rate.
StageEndNoRestore ==
    /\ pc = "collect"
    /\ fn = "none"
    /\ cfg.FastMode
    /\ results = <<>>
    /\ resultsClosed
    /\ stageIdx + 1 < Len(samplingStages)
    /\ bestOffset' = <<best.x, best.y>>
    /\ maxOffset' = searchMaxOffset
    /\ stageIdx' = stageIdx + 1
    /\ pc' = "stage"
    /\ UNCHANGED <<samplingStages, searchMaxOffset, origSamplingRate, ret, cfg>>
    /\ UNCHANGED <<poolVars, inputVars, callVars, renderVars, mainVars>>

\* searchBestOffsetInRange returns to the stage loop, which restores the
\* sampling rate, shrinks maxOffset and goes on to the next stage.
StageEnd ==
    /\ pc = "collect"
    /\ fn = "none"
    /\ cfg.FastMode
    /\ results = <<>>
    /\ resultsClosed
    /\ stageIdx + 1 < Len(samplingStages)
    /\ bestOffset' = <<best.x, best.y>>
    /\ cfg' = [cfg EXCEPT !.SamplingRate = origSamplingRate]
    /\ maxOffset' = searchMaxOffset
    /\ stageIdx' = stageIdx + 1
    /\ pc' = "stage"
    /\ UNCHANGED <<samplingStages, searchMaxOffset, origSamplingRate, ret>>
    /\ UNCHANGED <<poolVars, inputVars, callVars, renderVars, mainVars>>

\* The last stage: the stage loop ends and the function returns.
ReturnProgressive ==
    /\ pc = "collect"
    /\ fn = "none"
    /\ cfg.FastMode
    /\ results = <<>>
    /\ resultsClosed
    /\ stageIdx + 1 = Len(samplingStages)
    /\ bestOffset' = <<best.x, best.y>>
    /\ cfg' = [cfg EXCEPT !.SamplingRate = origSamplingRate]
    /\ maxOffset' = searchMaxOffset
    /\ ret' = <<best.x, best.y>>
    /\ pc' = "done"
    /\ UNCHANGED <<samplingStages, stageIdx, searchMaxOffset, origSamplingRate>>
    /\ UNCHANGED <<poolVars, inputVars, callVars, renderVars, mainVars>>

\* The windows of a direct call of searchBestOffsetInRange: one or two
\* candidates in the row y = 0 or y = 1.
RangeWindows ==
    {[minX |-> a, maxX |-> b, minY |-> y, maxY |-> y] :
         a \in -MaxRadius..MaxRadius, b \in -MaxRadius..(MaxRadius + 1), y \in 0..1}

\* searchBestOffsetInRange called directly, up to the start of the workers.
EnterSearchInRange ==
    /\ pc = "call"
    /\ fn' = "range"
    /\ \E w \in RangeWindows :
           /\ w.minX <= w.maxX
           /\ w.maxX <= w.minX + 1
           /\ PoolSetup(w.minX, w.maxX, w.minY, w.maxY)
    /\ pc' = "spawn"
    /\ UNCHANGED <<stageVars, ret, cfg, inputVars, renderVars, mainVars>>
    /\ UNCHANGED <<argX, argY, score, diffMap, hasDiff>>

\* searchBestOffsetInRange called directly: results is closed and drained;
\* return bestX, bestY, bestScore.
ReturnSearchInRange ==
    /\ pc = "collect"
    /\ fn = "range"
    /\ results = <<>>
    /\ resultsClosed
    /\ ret' = <<best.x, best.y>>
    /\ score' = best.score
    /\ pc' = "done"
    /\ UNCHANGED <<poolVars, stageVars, cfg, inputVars, renderVars, mainVars>>
    /\ UNCHANGED <<argX, argY, fn, diffMap, hasDiff>>

Next ==
    \/ EnterExhaustive
    \/ EnterProgressive
    \/ StageBegin
    \/ StartWorkers
    \/ ProducerSend
    \/ ProducerClose
    \/ WorkerRecv
    \/ WorkerSend
    \/ WorkerExit
    \/ CloserClose
    \/ CollectRecv
    \/ ReturnExhaustive
    \/ StageEnd
    \/ ReturnProgressive

Spec == InitSearch /\ [][Next]_vars

\* The calling goroutine (producer, stage loop and collector), the workers
\* and the goroutine that closes results are each scheduled fairly.
MainStep ==
    \/ EnterExhaustive
    \/ EnterProgressive
    \/ StageBegin
    \/ StartWorkers
    \/ ProducerSend
    \/ ProducerClose
    \/ CollectRecv
    \/ ReturnExhaustive
    \/ StageEnd
    \/ ReturnProgressive

\* ENABLED WorkerSend written out: a worker holds a candidate and results
\* has room.
WorkerSendEnabled ==
    /\ inflight # {}
    /\ Len(results) < ChanCap(Len(offsets))

\* Weak fairness of WorkerSend.
WorkerSendFair == []<>(~WorkerSendEnabled) \/ []<><<WorkerSend>>_vars

Fairness ==
    /\ WF_vars(MainStep)
    /\ WF_vars(WorkerRecv)
    /\ WorkerSendFair
    /\ WF_vars(WorkerExit)
    /\ WF_vars(CloserClose)

FairSpec == Spec /\ Fairness

\* Direct calls of searchBestOffsetInRange with its worker pool.
NextRange ==
    \/ EnterSearchInRange
    \/ StartWorkers
    \/ ProducerSend
    \/ ProducerClose
    \/ WorkerRecv
    \/ WorkerSend
    \/ WorkerExit
    \/ CloserClose
    \/ CollectRecv
    \/ ReturnSearchInRange

SpecRange == InitSearch /\ [][NextRange]_vars

(***************************************************************************)
(* The progressive search stage by stage.  One action is one iteration of  *)
(* the stage loop; searchBestOffsetInRange is summarised by the results it *)
(* can return.  The collector keeps the first result it receives whose     *)
(* score is the largest of the window, if that score is above 0.0, and     *)
(* (0, 0) with score 0.0 otherwise.  Workers take the candidates in the    *)
(* order of offsets and each holds one candidate at a time, so the first   *)
(* result received with the largest score is that of one of the first      *)
(* numWorkers candidates that have it.                                     *)
(***************************************************************************)
\* A search radius at which the later stages scan windows whose size
\* depends on what maxOffset is divided.
DeepRadius == 12

\* [bestX, bestY, bestScore] values searchBestOffsetInRange can return.
searchBestOffsetInRange(A, B, window, c) ==
    LET cands == Candidates(window.minX, window.maxX, window.minY, window.maxY)
        sc(i) == calculateSimilarityScore(A, B, cands[i][1], cands[i][2], c)
        scores == {sc(i) : i \in 1..Len(cands)}
        largest == CHOOSE s \in scores : \A u \in scores : ~ScoreGT(u, s)
        top == {i \in 1..Len(cands) : ~ScoreGT(largest, sc(i))}
        workers == Min(c.NumCPU, Len(cands))
        first == {i \in top : Cardinality({j \in top : j < i}) < workers}
    IN  IF cands = <<>> \/ ~IsBetter(largest, ScoreZero) \/ first = {}
        THEN {[x |-> 0, y |-> 0, score |-> ScoreZero]}
        ELSE {[x |-> cands[i][1], y |-> cands[i][2], score |-> sc(i)] : i \in first}

\* searchMaxOffset of stage stageIdx.
stageRadius(idx, maxOff) ==
    IF idx > 0 THEN Max(2, maxOff \div (2 * idx)) ELSE maxOff

\* The window searchBestOffsetInRange is called with.
stageWindow(centre, radius) ==
    [minX |-> centre[1] - radius, maxX |-> centre[1] + radius,
     minY |-> centre[2] - radius, maxY |-> centre[2] + radius]

\* A stage loop that leaves maxOffset as configured.
keptMaxOffset(searchMax, maxOff) == maxOff

\* maxOffset = searchMaxOffset at the end of an iteration.
shrunkMaxOffset(searchMax, maxOff) == searchMax

StageConfigs ==
    {Config(m, DefaultThreshold, n, r, TRUE) :
         m \in (0..MaxRadius) \cup {DeepRadius}, n \in 1..MaxWorkers, r \in 1..MaxRate}

InitStages ==
    /\ imgA \in SearchImagesA
    /\ imgB \in SearchImagesB
    /\ cfg \in StageConfigs
    /\ callerRate = cfg.SamplingRate
    /\ argX = 0
    /\ argY = 0
    /\ NoCall
    /\ NoOptions
    /\ NoRenderArgs
    /\ SearchIdle("call")

\* One iteration of the stage loop; the last one returns.
RunStage ==
    /\ pc = "stage"
    /\ origSamplingRate' = cfg.SamplingRate
    /\ searchMaxOffset' = stageRadius(stageIdx, maxOffset)
    /\ win' = stageWindow(bestOffset, searchMaxOffset')
    /\ best' \in searchBestOffsetInRange(
                    imgA, imgB, win',
                    [cfg EXCEPT !.SamplingRate = samplingStages[stageIdx + 1]])
    /\ bestOffset' = <<best'.x, best'.y>>
    /\ cfg' = [cfg EXCEPT !.SamplingRate = origSamplingRate']
    /\ maxOffset' = shrunkMaxOffset(searchMaxOffset', maxOffset)
    /\ IF stageIdx + 1 < Len(samplingStages)
       THEN /\ stageIdx' = stageIdx + 1
            /\ pc' = "stage"
            /\ ret' = ret
       ELSE /\ stageIdx' = stageIdx
            /\ pc' = "done"
            /\ ret' = bestOffset'
    /\ UNCHANGED <<samplingStages, offsets, sendIdx, offsetCh, offsetChClosed,
                   results, resultsClosed, idle, inflight, wg, closer, processed,
                   taken, emitted, emitCount, collected>>
    /\ UNCHANGED <<inputVars, callVars, renderVars, mainVars>>

NextStages == EnterProgressive \/ RunStage

SpecStages == InitStages /\ [][NextStages]_vars

(***************************************************************************)
(* The command line.  A string option is a sequence of characters; a       *)
(* float64 option is an exact fraction n/d, and NaN, which flag.Float64    *)
(* accepts, is the fraction 0/0: every comparison with it is false.        *)
(***************************************************************************)
NaN == Frac(0, 0)

IsNaN(v) == v.d = 0

\* value < bound for float64
FloatLT(value, bound) ==
    ~IsNaN(value) /\ ~IsNaN(bound) /\ value.n * bound.d < bound.n * value.d

\* utils.Clamp
Clamp(value, lo, hi) ==
    IF value < lo THEN lo ELSE IF value > hi THEN hi ELSE value

\* utils.ClampFloat64
ClampFloat64(value, lo, hi) ==
    IF FloatLT(value, lo) THEN lo ELSE IF FloatLT(hi, value) THEN hi ELSE value

\* strings.Split(s, sep) for a one-character separator.
RECURSIVE Split(_, _)
Split(s, sep) ==
    IF \A i \in 1..Len(s) : s[i] # sep
    THEN <<s>>
    ELSE LET k == CHOOSE i \in 1..Len(s) :
                      s[i] = sep /\ \A j \in 1..(i - 1) : s[j] # sep
         IN  <<SubSeq(s, 1, k - 1)>> \o Split(SubSeq(s, k + 1, Len(s)), sep)

\* strings.TrimSpace
RECURSIVE TrimSpace(_)
TrimSpace(s) ==
    IF s # <<>> /\ Head(s) = " "
    THEN TrimSpace(Tail(s))
    ELSE IF s # <<>> /\ s[Len(s)] = " "
         THEN TrimSpace(SubSeq(s, 1, Len(s) - 1))
         ELSE s

DigitValue ==
    "0" :> 0 @@ "1" :> 1 @@ "2" :> 2 @@ "3" :> 3 @@ "4" :> 4
        @@ "5" :> 5 @@ "6" :> 6 @@ "7" :> 7 @@ "8" :> 8 @@ "9" :> 9

RECURSIVE DecimalValue(_)
DecimalValue(digits) ==
    IF digits = <<>>
    THEN 0
    ELSE 10 * DecimalValue(SubSeq(digits, 1, Len(digits) - 1))
             + DigitValue[digits[Len(digits)]]

\* strconv.Atoi: an optional sign and one or more decimal digits.
Atoi(s) ==
    LET signed == s # <<>> /\ Head(s) \in {"+", "-"}
        digits == IF signed THEN Tail(s) ELSE s
    IN  IF digits = <<>> \/ \E i \in 1..Len(digits) : digits[i] \notin DOMAIN DigitValue
        THEN [err |-> TRUE, value |-> 0]
        ELSE [err |-> FALSE,
              value |-> IF signed /\ Head(s) = "-"
                        THEN -DecimalValue(digits)
                        ELSE DecimalValue(digits)]

\* One channel of the tint: Atoi(TrimSpace(part)), the default on error.
tintChannel(part, default) ==
    IF Atoi(TrimSpace(part)).err THEN default ELSE Atoi(TrimSpace(part)).value

parseTintColor(colorStr) ==
    LET parts == Split(colorStr, ",")
    IN  IF Len(parts) # 3
        THEN [r |-> 255, g |-> 0, b |-> 0]
        ELSE [r |-> Clamp(tintChannel(parts[1], 255), 0, 255),
              g |-> Clamp(tintChannel(parts[2], 0), 0, 255),
              b |-> Clamp(tintChannel(parts[3], 0), 0, 255)]

\* uint8(v) of an int
Uint8(v) == v % 256

createAppConfig(o) ==
    LET tint == parseTintColor(o.tintColor)
    IN  [MaxOffset              |-> o.maxOffset,
         Threshold              |-> o.threshold,
         HighlightDiff          |-> TRUE,
         NumCPU                 |-> o.numCPU,
         SamplingRate           |-> o.samplingRate,
         FastMode               |-> ~o.precise,
         ProgressStep           |-> 5,
         ShowTransparentOverlay |-> ~o.noOverlay,
         OverlayTransparency    |-> ClampFloat64(o.transparency, Frac(0, 1), Frac(1, 1)),
         OverlayTint            |-> RGBA(Uint8(tint.r), Uint8(tint.g), Uint8(tint.b), 255),
         UseTint                |-> ~o.disableTint,
         TintStrength           |-> ClampFloat64(o.tintStrength, Frac(0, 1), Frac(1, 1)),
         TintTransparency       |-> ClampFloat64(o.tintTransparency, Frac(0, 1), Frac(1, 1))]

\* The options as the flag definitions default them, with the three paths
\* given and one CPU.
DefaultOptions ==
    [input1 |-> <<"a", ".", "p", "n", "g">>, input2 |-> <<"b", ".", "p", "n", "g">>,
     output |-> <<"o", ".", "p", "n", "g">>,
     maxOffset |-> 10, threshold |-> 30, numCPU |-> 1, samplingRate |-> 4,
     precise |-> FALSE, noOverlay |-> FALSE, transparency |-> Frac(19, 20),
     disableTint |-> FALSE,
     tintColor |-> <<"2", "5", "5", ",", "0", ",", "0">>,
     tintStrength |-> Frac(1, 20), tintTransparency |-> Frac(1, 5),
     exitOnDiff |-> FALSE]

\* Values of -tc: the default, spaces and signs, out-of-range and
\* non-numeric parts, an empty part, two parts, the empty string.
TintStrings ==
    {<<"2", "5", "5", ",", "0", ",", "0">>,
     <<"0", ",", " ", "+", "9", " ", ",", "1">>,
     <<"3", "0", "0", ",", "-", "5", ",", "x">>,
     <<"7", ",", ",", "7">>,
     <<"1", ",", "2">>,
     <<>>}

\* Values of the float64 options.
FloatValues == {Frac(-1, 4), Frac(1, 4), Frac(5, 4), NaN}

\* Values of the int options -m, -d, -c and -s.
IntValues == [maxOffset |-> {-1, 0, 10}, threshold |-> {-1, 30, 256},
              numCPU |-> {0, 1}, samplingRate |-> {0, 1, 4}]

ConfigOptions ==
    {[DefaultOptions EXCEPT !.maxOffset = m, !.threshold = d, !.numCPU = n,
                            !.samplingRate = r, !.transparency = t,
                            !.tintStrength = u, !.tintTransparency = u,
                            !.tintColor = tc] :
         m \in IntValues.maxOffset, d \in IntValues.threshold,
         n \in IntValues.numCPU, r \in IntValues.samplingRate,
         t \in FloatValues, u \in {Frac(1, 4), Frac(5, 4)}, tc \in TintStrings}

\* No configuration has been created.
NoConfig == cfg = <<>> /\ callerRate = 0

InitConfig ==
    /\ imgA = Uniform(0, 0, Black)
    /\ imgB = Uniform(0, 0, Black)
    /\ NoConfig
    /\ argX = 0
    /\ argY = 0
    /\ NoCall
    /\ opts \in ConfigOptions
    /\ NoRenderArgs
    /\ SearchIdle("idle")

CallCreateAppConfig ==
    /\ fn = "none"
    /\ fn' = "config"
    /\ cfg' = createAppConfig(opts)
    /\ UNCHANGED <<imgA, imgB, callerRate, argX, argY, score, diffMap, hasDiff>>
    /\ UNCHANGED <<searchVars, renderVars, mainVars>>

NextConfig == CallCreateAppConfig

SpecConfig == InitConfig /\ [][NextConfig]_vars

(***************************************************************************)
(* main(): validateRequiredOptions, createAppConfig, processImages.  The   *)
(* two input files are readable images, already decoded into imgA and      *)
(* imgB.  FindBestAlignment is summarised by the offsets it can return,    *)
(* from the results searchBestOffsetInRange can return stage by stage;     *)
(* the exhaustive search collects its results the same way over the        *)
(* square of radius MaxOffset.                                             *)
(***************************************************************************)
\* The error of validateRequiredOptions: the options that are missing.
missingOptions(o) ==
    (IF o.input1 = <<>> THEN <<"i1">> ELSE <<>>)
        \o (IF o.input2 = <<>> THEN <<"i2">> ELSE <<>>)
        \o (IF o.output = <<>> /\ ~o.exitOnDiff THEN <<"o">> ELSE <<>>)

\* validateRequiredOptions returns an error.
validateRequiredOptions(o) == Len(missingOptions(o)) > 0

\* strings.ToLower on the letters the model uses.
ToLower(s) ==
    [i \in 1..Len(s) |->
        CASE s[i] = "P" -> "p"
          [] s[i] = "N" -> "n"
          [] s[i] = "G" -> "g"
          [] OTHER -> s[i]]

\* filepath.Ext: the suffix from the last dot of the last path element.
filepathExt(path) ==
    LET dots == {i \in 1..Len(path) :
                    path[i] = "." /\ \A j \in i..Len(path) : path[j] # "/"}
    IN  IF dots = {} THEN <<>> ELSE SubSeq(path, SetMax(dots), Len(path))

\* SaveDiffImage returns an error: os.Create fails on the empty path, and
\* the extension must be .png, .jpg or .jpeg.
SaveDiffImage(outputPath) ==
    \/ outputPath = <<>>
    \/ ToLower(filepathExt(outputPath))
           \notin {<<".", "p", "n", "g">>, <<".", "j", "p", "g">>,
                   <<".", "j", "p", "e", "g">>}

\* samplingStages of the progressive search.
stageRates(c) == <<8, 4, 2>> \o <<IF c.SamplingRate > 1 THEN c.SamplingRate ELSE 1>>

\* The offsets the stage loop can return from stage idx on.
RECURSIVE progressiveOffsets(_, _, _, _, _, _)
progressiveOffsets(A, B, c, idx, centre, maxOff) ==
    IF idx = Len(stageRates(c))
    THEN {centre}
    ELSE UNION {progressiveOffsets(
                    A, B, c, idx + 1, <<o.x, o.y>>,
                    shrunkMaxOffset(stageRadius(idx, maxOff), maxOff)) :
                  o \in searchBestOffsetInRange(
                            A, B, stageWindow(centre, stageRadius(idx, maxOff)),
                            [c EXCEPT !.SamplingRate = stageRates(c)[idx + 1]])}

\* The offsets FindBestAlignment can return.
FindBestAlignment(A, B, c) ==
    IF c.FastMode
    THEN progressiveOffsets(A, B, c, 0, <<0, 0>>, c.MaxOffset)
    ELSE {<<o.x, o.y>> :
             o \in searchBestOffsetInRange(
                       A, B, stageWindow(<<0, 0>>, c.MaxOffset), c)}

\* Values of -o: none, a PNG path, an upper-case extension, a text file.
OutputPaths ==
    {<<>>, <<"o", ".", "p", "n", "g">>, <<"o", ".", "P", "N", "G">>,
     <<"o", ".", "t", "x", "t">>}

\* Command lines of a run: both inputs given or the first one missing.
MainOptions ==
    {[DefaultOptions EXCEPT !.input1 = i, !.input2 = <<"b", ".", "p", "n", "g">>,
                            !.output = out, !.exitOnDiff = e,
                            !.maxOffset = m, !.samplingRate = r, !.precise = p,
                            !.transparency = Frac(1, 4),
                            !.tintStrength = Frac(3, 4),
                            !.tintTransparency = Frac(1, 4)] :
         i \in {<<>>, <<"a", ".", "p", "n", "g">>}, out \in OutputPaths,
         e \in BOOLEAN, m \in 0..MaxRadius, r \in 1..MaxRate, p \in BOOLEAN}

\* <<imgA, imgB>>: the same image twice, one white pixel, one grey pixel.
MainInputs ==
    {<<Uniform(2, 2, Black), Uniform(2, 2, Black)>>,
     <<Uniform(2, 2, Black), SpotsImage(2, 2, Black, {<<1, 1>>}, White)>>,
     <<Uniform(2, 2, Black),
       SpotsImage(2, 2, Black, {<<1, 1>>}, RGBA(20, 20, 20, 255))>>}

InitMain ==
    /\ \E d \in MainInputs : imgA = d[1] /\ imgB = d[2]
    /\ NoConfig
    /\ argX = 0
    /\ argY = 0
    /\ NoCall
    /\ opts \in MainOptions
    /\ NoRenderArgs
    /\ SearchIdle("idle")

\* main() from flag.Parse to the end of the process.
RunMain ==
    /\ fn = "none"
    /\ fn' = "main"
    /\ IF validateRequiredOptions(opts)
       THEN /\ exitStatus' = 1
            /\ UNCHANGED <<cfg, ret, hasDiff, diffMap, diffRegions, canvas, saved>>
       ELSE /\ cfg' = createAppConfig(opts)
            /\ ret' \in FindBestAlignment(imgA, imgB, cfg')
            /\ hasDiff' = HasDifferences(imgA, imgB, ret'[1], ret'[2], cfg')
            /\ diffMap' = DetectScan(imgA, imgB, ret'[1], ret'[2], cfg').cells
            /\ diffRegions' = detectDiffRegions(imgA, imgB, ret'[1], ret'[2], cfg')
            /\ canvas' = GenerateDiffImage(imgA, imgB, ret'[1], ret'[2], cfg')
            /\ IF hasDiff' /\ opts.exitOnDiff
               THEN exitStatus' = 1 /\ saved' = FALSE
               ELSE IF SaveDiffImage(opts.output)
                    THEN exitStatus' = 1 /\ saved' = FALSE
                    ELSE exitStatus' = 0 /\ saved' = TRUE
    /\ UNCHANGED <<imgA, imgB, callerRate, argX, argY, score>>
    /\ UNCHANGED <<pc, stageVars, poolVars, rectsArg, blendArgs, blended>>
    /\ UNCHANGED <<touching, opts>>

NextMain == RunMain

SpecMain == InitMain /\ [][NextMain]_vars

(***************************************************************************)
(* Properties of the direct calls (checked under SpecCalls).               *)
(***************************************************************************)
\* The overlap of imgA with imgB shifted by (dx, dy), as a set of imgA
\* coordinates, from the geometry alone.
OverlapXs(A, B, dx) ==
    {x \in A.minX..(A.maxX - 1) : B.minX + dx <= x /\ x < B.maxX + dx}

OverlapYs(A, B, dy) ==
    {y \in A.minY..(A.maxY - 1) : B.minY + dy <= y /\ y < B.maxY + dy}

\* The overlap positions a stride of rate visits, as imgA coordinates.
SampledOverlap(A, B, dx, dy, rate) ==
    {p \in OverlapXs(A, B, dx) \X OverlapYs(A, B, dy) :
        /\ (p[1] - Max(A.minX, B.minX + dx)) % rate = 0
        /\ (p[2] - Max(A.minY, B.minY + dy)) % rate = 0}

\* Of those, the ones whose Distance metric is strictly below the threshold,
\* pairing imgA's (x, y) with imgB's (x - dx, y - dy).
MatchingOverlap(A, B, dx, dy, c) ==
    {p \in SampledOverlap(A, B, dx, dy, c.SamplingRate) :
        DistLT(da_colorDifference(At(A, p[1], p[2]),
                                  At(B, p[1] - dx, p[2] - dy)),
               c.Threshold)}

\* B(x, y) = A(x + dx, y + dy) wherever the mapped coordinate lies inside A.
AlignedAt(A, B, dx, dy) ==
    \A p \in Cells(Dx(B), Dy(B)) :
        InBounds(A, A.minX + p[1] + dx, A.minY + p[2] + dy)
            => At(B, B.minX + p[1], B.minY + p[2])
                   = At(A, A.minX + p[1] + dx, A.minY + p[2] + dy)

\* The pixel pairs HasDifferences may compare: the positions of its loops
\* that pass its range check.
HasDiffPairs(img1, img2, dx, dy, c) ==
    LET x0 == Max(img1.minX, img2.minX - dx)
        y0 == Max(img1.minY, img2.minY - dy)
    IN  {HasDiffPoint(dx, dy, x, y) :
            x \in {v \in x0..(Min(img1.maxX, img2.maxX - dx) - 1) :
                       (v - x0) % c.SamplingRate = 0},
            y \in {v \in y0..(Min(img1.maxY, img2.maxY - dy) - 1) :
                       (v - y0) % c.SamplingRate = 0}}

\* C1: one sign convention.  Every pair of pixels the scorer, the detector and
\* HasDifferences compare at offset (dx, dy) is imgB's (x, y) with imgA's
\* (x + dx, y + dy); and when imgB equals imgA shifted by (dx, dy) on the whole
\* overlap, the scorer (threshold > 0) counts every sampled point as a match and
\* the detector (samplingRate 1) marks no cell whose mapped coordinate
\* (x + dx, y + dy) is inside imgA.
C1_OneSignConvention ==
    /\ fn = "score" =>
           /\ \A p \in ScoreScan(imgA, imgB, argX, argY, cfg).pairs :
                  p.xA = p.xB + argX /\ p.yA = p.yB + argY
           /\ (/\ AlignedAt(imgA, imgB, argX, argY)
               /\ cfg.Threshold > 0
               /\ SampledOverlap(imgA, imgB, argX, argY, 1) # {})
                  => ScoreEq(score,
                             CoverageScaled(1, 1,
                                 Cardinality(SampledOverlap(imgA, imgB, argX, argY, 1)),
                                 Max(Dx(imgA) * Dy(imgA), Dx(imgB) * Dy(imgB))))
    /\ fn = "detect" =>
           /\ \A p \in DetectScan(imgA, imgB, argX, argY, cfg).pairs :
                  p.xA = p.xB + argX /\ p.yA = p.yB + argY
           /\ (AlignedAt(imgA, imgB, argX, argY) /\ cfg.SamplingRate = 1)
                  => \A cell \in diffMap :
                         ~InBounds(imgA, imgA.minX + cell[1] + argX,
                                         imgA.minY + cell[2] + argY)
    /\ fn = "hasdiff" =>
           \A p \in HasDiffPairs(imgA, imgB, argX, argY, cfg) :
               p.x1 - imgA.minX = (p.x2 - imgB.minX) + argX
                   /\ p.y1 - imgA.minY = (p.y2 - imgB.minY) + argY

\* C6: an image compared with itself at offset (0, 0) scores 1.0, for every
\* sampling rate and every threshold in 0..255.
C6_IdenticalScoresOne ==
    (/\ fn = "score"
     /\ imgA = imgB
     /\ Dx(imgA) > 0 /\ Dy(imgA) > 0
     /\ argX = 0 /\ argY = 0)
        => ScoreEq(score, Frac(1, 1))

\* C7: with the overlap covering at least half of the larger image the score is
\* (sampled points strictly below the threshold) / (sampled points); so two
\* same-size images at (0, 0), samplingRate 1, that differ beyond the threshold
\* in exactly one of their N pixels score exactly (N-1)/N.
C7_OnePixelOff ==
    /\ (/\ fn = "score"
        /\ SampledOverlap(imgA, imgB, argX, argY, 1) # {}
        /\ 2 * Cardinality(SampledOverlap(imgA, imgB, argX, argY, 1))
               >= Max(Dx(imgA) * Dy(imgA), Dx(imgB) * Dy(imgB)))
           => ScoreEq(score,
                      Frac(Cardinality(MatchingOverlap(imgA, imgB, argX, argY, cfg)),
                           Cardinality(SampledOverlap(imgA, imgB, argX, argY,
                                                      cfg.SamplingRate))))
    /\ (/\ fn = "score"
        /\ Dx(imgA) = Dx(imgB) /\ Dy(imgA) = Dy(imgB)
        /\ argX = 0 /\ argY = 0
        /\ cfg.SamplingRate = 1
        /\ Cardinality({p \in Cells(Dx(imgA), Dy(imgA)) :
               DistGT(da_colorDifference(At(imgA, imgA.minX + p[1], imgA.minY + p[2]),
                                         At(imgB, imgB.minX + p[1], imgB.minY + p[2])),
                      cfg.Threshold)}) = 1)
           => ScoreEq(score, Frac(Dx(imgA) * Dy(imgA) - 1, Dx(imgA) * Dy(imgA)))

\* The first half of C7 alone: the code's score with enough coverage is the
\* fraction of sampled points strictly below the threshold.
C7_StrictRatio ==
    (/\ fn = "score"
     /\ SampledOverlap(imgA, imgB, argX, argY, 1) # {}
     /\ 2 * Cardinality(SampledOverlap(imgA, imgB, argX, argY, 1))
            >= Max(Dx(imgA) * Dy(imgA), Dx(imgB) * Dy(imgB)))
        => ScoreEq(score,
                   Frac(Cardinality(MatchingOverlap(imgA, imgB, argX, argY, cfg)),
                        Cardinality(SampledOverlap(imgA, imgB, argX, argY,
                                                   cfg.SamplingRate))))

\* C8: whenever the shifted images have overlap width <= 0 or overlap height <= 0
\* (zero-area images included) the score is exactly 0, and no score is ever the
\* result of a division by zero.
C8_NoOverlapScoresZero ==
    fn = "score" =>
        /\ score.d > 0
        /\ (OverlapXs(imgA, imgB, argX) = {} \/ OverlapYs(imgA, imgB, argY) = {})
               => score = ScoreZero

C8_Witness ==
    /\ fn = "score"
    /\ Dx(imgA) > 0 /\ Dy(imgA) > 0 /\ Dx(imgB) > 0 /\ Dy(imgB) > 0
    /\ imgA = imgB
    /\ cfg.Threshold > 0
    /\ OverlapXs(imgA, imgB, argX) = {}
    /\ OverlapYs(imgA, imgB, argY) # {}
    /\ score = ScoreZero

\* C9: the score is the match ratio, multiplied by 2 * coverageRatio when
\* coverageRatio = overlapArea / max(areaA, areaB) is below 0.5 and unchanged
\* otherwise; it lies in [0, 1]; the 5x5 image matching everywhere inside the
\* 10x10 image at offset (2, 3) scores exactly 0.5.
C9_CoverageScaling ==
    fn = "score" =>
        LET sampled == Cardinality(SampledOverlap(imgA, imgB, argX, argY,
                                                  cfg.SamplingRate))
            matches == Cardinality(MatchingOverlap(imgA, imgB, argX, argY, cfg))
            overlap == Cardinality(SampledOverlap(imgA, imgB, argX, argY, 1))
            total   == Max(Dx(imgA) * Dy(imgA), Dx(imgB) * Dy(imgB))
        IN  /\ 0 <= score.n /\ score.n <= score.d
            /\ (overlap > 0 /\ 2 * overlap < total)
                   => score.n * (sampled * total) = (matches * 2 * overlap) * score.d
            /\ (overlap > 0 /\ 2 * overlap >= total)
                   => score.n * sampled = matches * score.d
            /\ (/\ imgA = Uniform(FixtureSizeA, FixtureSizeA, White)
                /\ imgB = Uniform(FixtureSizeD, FixtureSizeD, White)
                /\ argX = FixtureOffsetX /\ argY = FixtureOffsetY)
                   => ScoreEq(score, Frac(1, 2))

C9_Witness ==
    /\ fn = "score"
    /\ imgA = Uniform(FixtureSizeA, FixtureSizeA, White)
    /\ imgB = Uniform(FixtureSizeD, FixtureSizeD, White)
    /\ 4 * Cardinality(SampledOverlap(imgA, imgB, argX, argY, 1))
           = Dx(imgA) * Dy(imgA)
    /\ ScoreEq(score, Frac(1, 2))

(***************************************************************************)
(* Properties of FindBestAlignment (checked under Spec and FairSpec).      *)
(***************************************************************************)
SeqSet(q) == {q[i] : i \in 1..Len(q)}

WindowSet == (win.minX..win.maxX) \X (win.minY..win.maxY)

ExhaustiveCandidates ==
    ((-cfg.MaxOffset)..cfg.MaxOffset) \X ((-cfg.MaxOffset)..cfg.MaxOffset)

CandidateScore(o) == calculateSimilarityScore(imgA, imgB, o[1], o[2], cfg)

IsMaximum(o) ==
    \A q \in ExhaustiveCandidates : ~ScoreGT(CandidateScore(q), CandidateScore(o))

UniqueMaximum(o) ==
    \A q \in ExhaustiveCandidates : q # o => ScoreGT(CandidateScore(o), CandidateScore(q))

\* C2: with FastMode false, for every worker count and every interleaving the
\* returned offset is one of the (2*maxOffset+1)^2 candidates and no candidate
\* scores higher; a candidate that alone attains the maximum is the one
\* returned.
C2_ExhaustiveReturnsMaximum ==
    (pc = "done" /\ ~cfg.FastMode) =>
        /\ ret \in ExhaustiveCandidates
        /\ Cardinality(ExhaustiveCandidates)
               = (2 * cfg.MaxOffset + 1) * (2 * cfg.MaxOffset + 1)
        /\ IsMaximum(ret)
        /\ \A o \in ExhaustiveCandidates : UniqueMaximum(o) => ret = o

C2_Witness ==
    /\ pc = "done"
    /\ ~cfg.FastMode
    /\ cfg.NumCPU > 1
    /\ cfg.MaxOffset > 0
    /\ ret # <<0, 0>>
    /\ UniqueMaximum(ret)
    /\ collected = ExhaustiveCandidates

\* C3: in every search over a window, each candidate of the window is taken by
\* one worker at most once, scored once and gives one result; and the collector
\* loop can end (results closed and drained) only when every candidate of the
\* window has been taken, scored and collected exactly once.
C3_EveryCandidateOnce ==
    /\ Len(taken) = Cardinality(SeqSet(taken))
    /\ SeqSet(taken) \subseteq WindowSet
    /\ inflight \cap emitted = {}
    /\ inflight \cup emitted = SeqSet(taken)
    /\ emitCount = Cardinality(emitted)
    /\ processed = Cardinality(collected)
    /\ Len(results) + processed = emitCount
    /\ collected \cup {<<r.offsetX, r.offsetY>> : r \in SeqSet(results)} = emitted
    /\ (resultsClosed /\ results = <<>>) =>
           /\ processed = Cardinality(WindowSet)
           /\ collected = WindowSet
           /\ SeqSet(taken) = WindowSet
           /\ emitCount = Cardinality(WindowSet)
    /\ pc = "done" => (resultsClosed /\ results = <<>>)

C3_Witness ==
    /\ pc = "done"
    /\ cfg.FastMode
    /\ stageIdx + 1 = Len(samplingStages)
    /\ Cardinality(WindowSet) > 1
    /\ processed = Cardinality(WindowSet)
    /\ collected = WindowSet

\* C4: under fair scheduling every call of FindBestAlignment, exhaustive or
\* progressive, eventually returns, with the candidate channel closed and
\* drained, every worker gone, and results closed and drained.
C4_EventuallyReturns ==
    <>(/\ pc = "done"
       /\ offsetChClosed /\ offsetCh = <<>>
       /\ wg = 0 /\ idle = 0 /\ inflight = {}
       /\ closer = "done" /\ resultsClosed /\ results = <<>>)

C4_Witness ==
    /\ pc = "done"
    /\ cfg.NumCPU > 1
    /\ cfg.MaxOffset > 0
    /\ cfg.SamplingRate > 1
    /\ wg = 0
    /\ closer = "done"

\* C5: in every reachable state of a FindBestAlignment call the SamplingRate
\* field of the shared Configuration holds the value the caller put there.
C5_ConfigurationNeverWritten == cfg.SamplingRate = callerRate

\* C10: the returned offset never exceeds the configured maximum offset,
\* in exhaustive and in progressive mode.
C10_OffsetWithinMaxOffset ==
    pc = "done" =>
        /\ AbsInt(ret[1]) <= cfg.MaxOffset
        /\ AbsInt(ret[2]) <= cfg.MaxOffset

(***************************************************************************)
(* C12: comparing an image with an identical image of the same size at     *)
(* offset (0, 0) yields no difference region, at every sampling rate and   *)
(* every threshold.                                                        *)
(***************************************************************************)
C12_IdenticalNoRegions ==
    (fn = "detect" /\ imgA = imgB /\ argX = 0 /\ argY = 0)
        => (diffMap = {} /\ diffRegions = <<>>)

\* Identical non-empty images were compared at threshold 0 with sampling.
C12_Witness ==
    /\ fn = "detect"
    /\ imgA = imgB
    /\ Dx(imgB) = MaxDim /\ Dy(imgB) = MaxDim
    /\ argX = 0 /\ argY = 0
    /\ cfg.Threshold = 0
    /\ cfg.SamplingRate = MaxRate
    /\ diffRegions = <<>>

(***************************************************************************)
(* Detection and rendering.                                                *)
(***************************************************************************)
\* Pixel (x, y) lies inside rect.
InRect(rect, x, y) ==
    /\ rect.minX <= x /\ x < rect.maxX
    /\ rect.minY <= y /\ y < rect.maxY

\* Pixel (x, y) lies inside one of the rectangles of the list.
Covered(list, x, y) == \E k \in 1..Len(list) : InRect(list[k], x, y)

(***************************************************************************)
(* C11: every pixel the detector marked different lies inside at least one *)
(* of the rectangles detectDiffRegions returns.                            *)
(***************************************************************************)
C11_MarkedPixelsCovered ==
    fn \in {"detect", "generate"}
        => \A cell \in diffMap :
               Covered(diffRegions, imgB.minX + cell[1], imgB.minY + cell[2])

(***************************************************************************)
(* mergeOverlappingRectangles.                                             *)
(***************************************************************************)
\* The lists that hold the elements of list in some order.
Orderings(list) ==
    {[k \in 1..Len(list) |-> list[f[k]]] :
        f \in {g \in [1..Len(list) -> 1..Len(list)] :
                  \A a, b \in 1..Len(list) : a # b => g[a] # g[b]}}

\* r1 lies inside r2, edges included.
Inside(r1, r2) ==
    /\ r2.minX <= r1.minX /\ r1.maxX <= r2.maxX
    /\ r2.minY <= r1.minY /\ r1.maxY <= r2.maxY

\* Area the two rectangles share.
SharedArea(r1, r2) ==
    LET w == Min(r1.maxX, r2.maxX) - Max(r1.minX, r2.minX)
        h == Min(r1.maxY, r2.maxY) - Max(r1.minY, r2.minY)
    IN  IF w > 0 /\ h > 0 THEN w * h ELSE 0

(***************************************************************************)
(* C13: merging is idempotent: merging a merged list again returns the     *)
(* same set of rectangles.                                                 *)
(***************************************************************************)
C13_MergeIdempotent ==
    fn = "merged again" => SeqSet(diffRegions) = SeqSet(rectsArg)

(***************************************************************************)
(* C14: the merged set does not depend on the order of the input list.     *)
(***************************************************************************)
C14_MergeOrderIndependent ==
    fn = "merge"
        => \A list \in Orderings(rectsArg) :
               SeqSet(mergeOverlappingRectangles(list)) = SeqSet(diffRegions)

\* A merged list of two rectangles, one of them a union, was merged again.
C13_Witness ==
    /\ fn = "merged again"
    /\ Len(rectsArg) = 2
    /\ \E k \in 1..Len(rectsArg) : rectsArg[k] \notin MergeRects
    /\ diffRegions = rectsArg

\* The smallest rectangle that holds r1 and r2.
BoundingUnion(r1, r2) ==
    [minX |-> Min(r1.minX, r2.minX), minY |-> Min(r1.minY, r2.minY),
     maxX |-> Max(r1.maxX, r2.maxX), maxY |-> Max(r1.maxY, r2.maxY)]

\* r1 holds r2 when r1 is widened by the tolerance of 5 on every side.
ContainsWithin5(r1, r2) ==
    /\ r1.minX - 5 <= r2.minX /\ r2.maxX <= r1.maxX + 5
    /\ r1.minY - 5 <= r2.minY /\ r2.maxY <= r1.maxY + 5

\* A list of two different rectangles was merged.
MergedPair == fn = "merge" /\ Len(rectsArg) = 2 /\ rectsArg[1] # rectsArg[2]

(***************************************************************************)
(* C15: when one of two rectangles contains the other within the 5-unit    *)
(* tolerance, the merge returns one rectangle, the larger of the two; a    *)
(* rectangle lying inside another collapses to the outer one.              *)
(***************************************************************************)
C15_ContainmentKeepsLarger ==
    MergedPair
        => LET r1 == rectsArg[1]
               r2 == rectsArg[2]
           IN  /\ (ContainsWithin5(r1, r2) \/ ContainsWithin5(r2, r1))
                     => /\ Len(diffRegions) = 1
                        /\ diffRegions[1] \in {r1, r2}
                        /\ rectArea(diffRegions[1])
                               = Max(rectArea(r1), rectArea(r2))
               /\ Inside(r2, r1) => diffRegions = <<r1>>
               /\ Inside(r1, r2) => diffRegions = <<r2>>

(***************************************************************************)
(* C16: two rectangles whose intersection is at least 20% of the smaller   *)
(* one, neither containing the other within the tolerance, with areas      *)
(* within a factor 10 and a bounding union of at most 1.8 times the sum of *)
(* their areas, are merged into exactly their bounding union.              *)
(***************************************************************************)
C16_OverlappingPairMerged ==
    MergedPair
        => LET r1 == rectsArg[1]
               r2 == rectsArg[2]
               a1 == rectArea(r1)
               a2 == rectArea(r2)
           IN  (/\ SharedArea(r1, r2) > 0
                /\ 5 * SharedArea(r1, r2) >= Min(a1, a2)
                /\ ~ContainsWithin5(r1, r2)
                /\ ~ContainsWithin5(r2, r1)
                /\ Max(a1, a2) <= 10 * Min(a1, a2)
                /\ 5 * rectArea(BoundingUnion(r1, r2)) <= 9 * (a1 + a2))
                   => diffRegions = <<BoundingUnion(r1, r2)>>

\* The overlapping squares of TestMergeOverlappingRectangles were merged.
C16_Witness ==
    /\ fn = "merge"
    /\ rectsArg = <<Rect(10, 10, 30, 30), Rect(20, 20, 40, 40)>>
    /\ diffRegions = <<Rect(10, 10, 40, 40)>>

(***************************************************************************)
(* C17: a merge candidate whose bounding union exceeds 1.8 times the sum   *)
(* of the two areas, with an overlap of at most 50% of the smaller one, is *)
(* not merged: the output holds exactly the two rectangles, unchanged.     *)
(***************************************************************************)
C17_UnreasonableMergeRejected ==
    MergedPair
        => LET r1 == rectsArg[1]
               r2 == rectsArg[2]
               a1 == rectArea(r1)
               a2 == rectArea(r2)
           IN  (/\ shouldMergeRects(r1, r2)
                /\ ~ContainsWithin5(r1, r2)
                /\ ~ContainsWithin5(r2, r1)
                /\ 5 * rectArea(BoundingUnion(r1, r2)) > 9 * (a1 + a2)
                /\ 2 * SharedArea(r1, r2) <= Min(a1, a2))
                   => /\ Len(diffRegions) = 2
                      /\ SeqSet(diffRegions) = {r1, r2}

\* Pixel (x, y) lies inside rect at least 3 pixels away from every edge.
StrictlyInside(rect, x, y) ==
    /\ rect.minX + 3 <= x /\ x <= rect.maxX - 1 - 3
    /\ rect.minY + 3 <= y /\ y <= rect.maxY - 1 - 3

\* Pixel (x, y) lies in the 3-pixel perimeter band of rect.
InBand(rect, x, y) == InRect(rect, x, y) /\ ~StrictlyInside(rect, x, y)

\* The list of regions the rendering call drew.
RenderedRegions == IF fn = "generate" THEN diffRegions ELSE rectsArg

(***************************************************************************)
(* C18: in the rendered image every canvas pixel in the 3-pixel perimeter  *)
(* band of any rendered region is pure red, in every order of the regions, *)
(* with overlapping regions and with the tinted overlay enabled.           *)
(***************************************************************************)
C18_BordersPureRed ==
    fn \in {"generate", "borders"}
        => \A q \in DOMAIN canvas.pix :
               (\E k \in 1..Len(RenderedRegions) :
                    InBand(RenderedRegions[k], q[1], q[2]))
                   => canvas.pix[q] = Red

(***************************************************************************)
(* C19: GenerateDiffImage returns a canvas of max width x max height in    *)
(* which every pixel outside all detected regions is the imgB pixel, and,  *)
(* with the overlay disabled, so is every pixel strictly inside the border *)
(* of a region.                                                            *)
(***************************************************************************)
C19_CanvasKeepsImgB ==
    fn = "generate"
        => /\ canvas.minX = 0 /\ canvas.minY = 0
           /\ canvas.maxX = Max(Dx(imgA), Dx(imgB))
           /\ canvas.maxY = Max(Dy(imgA), Dy(imgB))
           /\ \A q \in DOMAIN canvas.pix :
                  /\ ~Covered(diffRegions, q[1], q[2])
                         => canvas.pix[q] = At(imgB, imgB.minX + q[1], imgB.minY + q[2])
                  /\ (/\ ~cfg.ShowTransparentOverlay
                      /\ \E k \in 1..Len(diffRegions) :
                             StrictlyInside(diffRegions[k], q[1], q[2]))
                         => canvas.pix[q] = At(imgB, imgB.minX + q[1], imgB.minY + q[2])

(***************************************************************************)
(* blendColors.                                                            *)
(***************************************************************************)
\* The integer part of a * (1 - t) + b * t for a fraction t in [0, 1].
TruncatedBlend(a, b, t) ==
    CHOOSE v \in 0..255 :
        /\ v * t.d <= a * (t.d - t.n) + b * t.n
        /\ a * (t.d - t.n) + b * t.n < (v + 1) * t.d

\* The mean of two fractions.
MeanOf(s, t) == Frac(s.n * t.d + t.n * s.d, 2 * s.d * t.d)

(***************************************************************************)
(* C20: without tint every colour channel of blendColors is the truncation *)
(* of src * (1 - transparency) + dst * transparency, so transparency 0     *)
(* gives src, transparency 1 gives dst and half of 255 over 0 gives 127;   *)
(* with tint, src is moved toward the tint by tintStrength, truncated, and *)
(* then blended with dst at the mean of transparency and tintTransparency; *)
(* alpha is the larger of the two alphas.                                  *)
(***************************************************************************)
C20_BlendTruncates ==
    fn = "blend"
        => LET src  == blendArgs.src
               dst  == blendArgs.dst
               t    == blendArgs.transparency
               tint == blendArgs.tint
               mean == MeanOf(t, blendArgs.tintTransparency)
               ch   == {"r", "g", "b"}
           IN  /\ blended.a = Max(src.a, dst.a)
               /\ ~blendArgs.useTint
                     => /\ \A c \in ch : blended[c] = TruncatedBlend(src[c], dst[c], t)
                        /\ t.n = 0 => \A c \in ch : blended[c] = src[c]
                        /\ t.n = t.d => \A c \in ch : blended[c] = dst[c]
                        /\ \A c \in ch :
                               (src[c] = 255 /\ dst[c] = 0 /\ 2 * t.n = t.d)
                                   => blended[c] = 127
               /\ blendArgs.useTint
                     => \A c \in ch :
                            blended[c] = TruncatedBlend(
                                TruncatedBlend(src[c], tint[c], blendArgs.tintStrength),
                                dst[c], mean)

\* The half blend of TestBlendColors: red over black without tint gives 127.
C20_Witness ==
    /\ fn = "blend"
    /\ ~blendArgs.useTint
    /\ blendArgs.src = RGBA(255, 0, 0, 255)
    /\ blendArgs.dst = RGBA(0, 0, 0, 255)
    /\ blendArgs.transparency = Frac(2, 4)
    /\ blended = RGBA(127, 0, 0, 255)

(***************************************************************************)
(* C23: when imgA or imgB has zero area, detectDiffRegions returns no      *)
(* rectangle, at every offset and sampling rate.                           *)
(***************************************************************************)
C23_DegenerateNoRegions ==
    (fn = "detect" /\ (Dx(imgA) * Dy(imgA) = 0 \/ Dx(imgB) * Dy(imgB) = 0))
        => diffRegions = <<>>

\* The Threshold metric: the largest absolute difference of the R, G and B
\* channels, alpha ignored.
MaxChannelDifference(c1, c2) ==
    Max(Max(AbsInt(c1.r - c2.r), AbsInt(c1.g - c2.g)), AbsInt(c1.b - c2.b))

\* The block of side samplingRate with origin (x, y), clipped to imgB.
ClippedBlock(x, y) ==
    {<<bx, by>> \in Cells(Dx(imgB), Dy(imgB)) :
        /\ x <= bx /\ bx < x + cfg.SamplingRate
        /\ y <= by /\ by < y + cfg.SamplingRate}

\* The sampled origins whose block the rule of C24 marks different.
MarkedOrigins ==
    {p \in Cells(Dx(imgB), Dy(imgB)) :
        /\ p[1] % cfg.SamplingRate = 0
        /\ p[2] % cfg.SamplingRate = 0
        /\ \/ ~InBounds(imgA, imgA.minX + p[1] - argX, imgA.minY + p[2] - argY)
           \/ MaxChannelDifference(
                  At(imgA, imgA.minX + p[1] - argX, imgA.minY + p[2] - argY),
                  At(imgB, imgB.minX + p[1], imgB.minY + p[2])) > cfg.Threshold}

(***************************************************************************)
(* C24: the mask of detectDiffRegions is exactly the union of the blocks   *)
(* of the sampled origins whose imgA coordinate is outside imgA or whose   *)
(* two pixels differ by more than threshold in the largest R, G, B channel *)
(* difference.                                                             *)
(***************************************************************************)
C24_MaskByThresholdMetric ==
    fn \in {"detect", "generate"}
        => diffMap = UNION {ClippedBlock(p[1], p[2]) : p \in MarkedOrigins}

(***************************************************************************)
(* C30: HasDifferences returns true exactly when detectDiffRegions at the  *)
(* same offset returns at least one region.                                *)
(***************************************************************************)
C30_SignalAgreesWithRegions ==
    fn = "differences" => (hasDiff <=> diffRegions # <<>>)

\* rect is at least 20 wide, or reaches a vertical edge of bounds.
WideOrClipped(rect, bounds) ==
    \/ rect.maxX - rect.minX >= 20
    \/ rect.minX = bounds.minX
    \/ rect.maxX = bounds.maxX

\* rect is at least 20 high, or reaches a horizontal edge of bounds.
HighOrClipped(rect, bounds) ==
    \/ rect.maxY - rect.minY >= 20
    \/ rect.minY = bounds.minY
    \/ rect.maxY = bounds.maxY

\* The minimum-size step took before to after as the rule says.
GrownOrKept(before, after, bounds) ==
    IF before.maxX - before.minX >= 20 /\ before.maxY - before.minY >= 20
    THEN after = before
    ELSE /\ Inside(before, after)
         /\ WideOrClipped(after, bounds)
         /\ HighOrClipped(after, bounds)

(***************************************************************************)
(* C25: the minimum-size step of groupDiffRegions only grows rectangles: a *)
(* rectangle narrower or lower than 20 is replaced by one that contains it *)
(* and is at least 20 wide and high unless clipped by the image bounds; a  *)
(* rectangle of at least 20x20 is kept as it is.                           *)
(***************************************************************************)
C25_MinSizeOnlyGrows ==
    fn \in {"detect", "generate"}
        => LET before == scannedRegions(diffMap, Dx(imgB), Dy(imgB), Bounds(imgB))
               after == filteredRegions(diffMap, Dx(imgB), Dy(imgB), Bounds(imgB))
           IN  \A k \in 1..Len(before) :
                   GrownOrKept(before[k], after[k], Bounds(imgB))

\* The rectangles are closer than the 10-unit margin on both axes.
WithinMargin(r1, r2) ==
    /\ r1.maxX + 10 > r2.minX /\ r2.maxX + 10 > r1.minX
    /\ r1.maxY + 10 > r2.minY /\ r2.maxY + 10 > r1.minY

\* Case (a): the area shared is at least 20% of the smaller area.
SharesFifth(r1, r2) ==
    /\ SharedArea(r1, r2) > 0
    /\ 5 * SharedArea(r1, r2) >= Min(rectArea(r1), rectArea(r2))

\* Case (b): nothing shared, centres closer than half the mean diagonal.
CentresClose(r1, r2) ==
    /\ SharedArea(r1, r2) = 0
    /\ SqrtLessQuarterSum(centerDist2(r1, r2), diagonal2(r1), diagonal2(r2))

(***************************************************************************)
(* C26: doRectanglesOverlapOrTouch(r1, r2) is true iff the rectangles are  *)
(* within the 10-unit margin on both axes and either share at least 20% of *)
(* the smaller area or share nothing and have centres closer than half the *)
(* mean of their diagonals; rectangles with a gap never pass by the area.  *)
(***************************************************************************)
C26_OverlapOrTouchRule ==
    fn = "overlap"
        => (touching <=> /\ WithinMargin(rectsArg[1], rectsArg[2])
                         /\ \/ SharesFifth(rectsArg[1], rectsArg[2])
                            \/ CentresClose(rectsArg[1], rectsArg[2]))

(***************************************************************************)
(* The progressive search (checked under SpecStages).                      *)
(***************************************************************************)
\* Radius of stage i when every later stage divides the configured radius.
ConfiguredRadius(i, configured) ==
    IF i = 0 THEN configured ELSE Max(2, configured \div (2 * i))

\* Radius of stage i when every later stage divides the radius of the
\* stage before it.
RECURSIVE PreviousRadius(_, _)
PreviousRadius(i, configured) ==
    IF i = 0
    THEN configured
    ELSE Max(2, PreviousRadius(i - 1, configured) \div (2 * i))

\* The square of the given radius around centre.
Square(centre, radius) ==
    [minX |-> centre[1] - radius, maxX |-> centre[1] + radius,
     minY |-> centre[2] - radius, maxY |-> centre[2] + radius]

\* The step is a stage of the progressive search: it starts at (0,0) in
\* stage 0, and the call returns after stage 3 what that stage found.
StageStep ==
    /\ pc = "stage"
    /\ stageIdx = 0 => bestOffset = <<0, 0>>
    /\ pc' = "done" => stageIdx = 3 /\ ret' = <<best'.x, best'.y>>
    /\ pc' # "done" => stageIdx < 3 /\ stageIdx' = stageIdx + 1

(***************************************************************************)
(* C27 as stated: stage 0 scans the square of the configured radius around *)
(* (0,0), stage i > 0 the square of radius max(2, configured/(2i)) around  *)
(* the offset the stage before returned, and the call returns the offset   *)
(* the last stage found.                                                   *)
(***************************************************************************)
C27_WindowsFromConfiguredRadius ==
    [][pc = "stage"
          => /\ StageStep
             /\ win' = Square(bestOffset,
                              ConfiguredRadius(stageIdx, cfg.MaxOffset))]_vars

(***************************************************************************)
(* C27 amended: stage i > 0 scans the square of radius max(2, r/(2i))      *)
(* around the offset the stage before returned, r being the radius of      *)
(* stage i-1 and not the configured radius; stage 0 scans the square of    *)
(* the configured radius around (0,0); the call returns the offset the     *)
(* last stage found.                                                       *)
(***************************************************************************)
C27_WindowsFromPreviousRadius ==
    [][pc = "stage"
          => /\ StageStep
             /\ win' = Square(bestOffset,
                              PreviousRadius(stageIdx, cfg.MaxOffset))]_vars

\* The third stage of a search of radius DeepRadius or more has run.
C27_Witness ==
    /\ pc = "stage"
    /\ stageIdx = 3
    /\ cfg.MaxOffset >= DeepRadius
    /\ win = Square(<<win.minX + 2, win.minY + 2>>, 2)

(***************************************************************************)
(* The worker pool of the progressive search (checked under Spec).         *)
(***************************************************************************)
\* The sampling rates of the four stages for the caller's configuration.
StageRates == <<8, 4, 2, IF callerRate > 1 THEN callerRate ELSE 1>>

\* No worker goroutine of a stage is left.
WorkersGone == idle = 0 /\ inflight = {} /\ wg = 0

\* The stage loop writes the field (before a stage) or restores it (after).
RateWritten == pc = "stage" \/ (pc = "collect" /\ pc' # "collect")

(***************************************************************************)
(* C28: in the progressive search every worker of stage k scores with the  *)
(* k-th rate of [8, 4, 2, finalRate], no worker is running when the field  *)
(* is written or restored, and when the search returns SamplingRate is     *)
(* what it was at call time.                                               *)
(***************************************************************************)
C28_RateOverrideScoped ==
    [][cfg.FastMode
          => /\ emitCount' = emitCount + 1
                => /\ stageIdx + 1 \in 1..4
                   /\ cfg.SamplingRate = StageRates[stageIdx + 1]
             /\ RateWritten => WorkersGone
             /\ pc' = "done" => cfg'.SamplingRate = callerRate]_vars

\* The progressive search has returned after its workers scored at a rate
\* other than the caller's.
C28_Witness ==
    /\ cfg.FastMode
    /\ pc = "done"
    /\ emitCount > 0
    /\ stageIdx = 3
    /\ cfg.SamplingRate = callerRate

\* Offset o lies in window w.
InWindow(o, w) ==
    /\ w.minX <= o[1] /\ o[1] <= w.maxX
    /\ w.minY <= o[2] /\ o[2] <= w.maxY

(***************************************************************************)
(* C29: searchBestOffsetInRange returns an offset of the window it was     *)
(* asked to scan, with the score of that offset, whatever the window, the  *)
(* images and the order in which the workers deliver.                      *)
(***************************************************************************)
C29_ResultInsideWindow ==
    (fn = "range" /\ pc = "done")
        => /\ InWindow(ret, win)
           /\ score = calculateSimilarityScore(imgA, imgB, ret[1], ret[2], cfg)

(***************************************************************************)
(* The command line (checked under SpecConfig and SpecMain).               *)
(***************************************************************************)
\* 0 <= v <= 1
InUnitInterval(v) ==
    ~IsNaN(v) /\ ~FloatLT(v, Frac(0, 1)) /\ ~FloatLT(Frac(1, 1), v)

(***************************************************************************)
(* C22: whatever the command line, the configuration createAppConfig       *)
(* returns has samplingRate >= 1, workerCount >= 1, maxOffset >= 0,        *)
(* threshold in 0..255, the three float parameters in [0,1] and every tint *)
(* channel in 0..255.                                                      *)
(***************************************************************************)
C22_ConfigurationInRange ==
    fn = "config"
        => /\ cfg.SamplingRate >= 1
           /\ cfg.NumCPU >= 1
           /\ cfg.MaxOffset >= 0
           /\ cfg.Threshold \in 0..255
           /\ InUnitInterval(cfg.OverlayTransparency)
           /\ InUnitInterval(cfg.TintStrength)
           /\ InUnitInterval(cfg.TintTransparency)
           /\ cfg.OverlayTint.r \in 0..255
           /\ cfg.OverlayTint.g \in 0..255
           /\ cfg.OverlayTint.b \in 0..255

(***************************************************************************)
(* C21: with -e and no -o, for two loadable images, validation passes and  *)
(* the run ends with exit status 1 and no image saved when differences are *)
(* found, and with exit status 0 when none are found.                      *)
(***************************************************************************)
C21_ExitOnDiffWithoutOutput ==
    (/\ fn = "main"
     /\ opts.exitOnDiff
     /\ opts.output = <<>>
     /\ opts.input1 # <<>>
     /\ opts.input2 # <<>>)
        => IF hasDiff
           THEN exitStatus = 1 /\ ~saved
           ELSE exitStatus = 0

====
